---- MODULE Spec2Model ----
(***************************************************************************)
(* A model of the blackjack rules engine (src/utils/blackjack.ts).         *)
(*                                                                         *)
(* The engine is a library of pure functions.  Each function is an         *)
(* operator translated from its code, and each specification below is a    *)
(* caller that prepares an input (Init), calls one function of the engine  *)
(* on it (one action per function) and records the arguments of the call   *)
(* in args and the returned value in ret.                                  *)
(*                                                                         *)
(* A Card is a record [rank, suit, faceDown]; the optional faceDown of the *)
(* source (undefined is falsy) is FALSE when absent.  The four suit        *)
(* symbols of the source are written "S", "H", "D", "C".  isNew is a       *)
(* display flag no engine function reads and is left out.                  *)
(***************************************************************************)
EXTENDS Integers, Sequences, FiniteSets, TLC

VARIABLES
    input,   \* what the caller prepared: a record holding the hand, shoe or numbers
    op,      \* the engine function called last, "none" before the call
    args,    \* the arguments of that call
    ret,     \* the value it returned
    shoe,    \* the caller's working shoe (the remainder it chains draws on)
    drawn,   \* the cards the caller has drawn so far, in the order drawn
    dealerCards,      \* GamePlay state: the dealer's cards
    playerHands,      \* GamePlay state: the player's hands, in table order
    activeHandIndex,  \* GamePlay state: index (from 0) of the hand being played
    gameState,        \* GamePlay state: dealing, playerTurn, dealerTurn, complete
    isFirstAction,    \* GamePlay state: no action taken yet on the active hand
    balance,          \* HomeScreen state: the player's money, in halves of a unit
    homeShoe,         \* HomeScreen state: shoe
    gamePhase,        \* HomeScreen state: betting or playing
    currentBet,       \* HomeScreen state: the bet of the round being played
    discardCount,     \* HomeScreen state: cards in the discard tray
    gameEndDataRef,   \* GamePlay ref: what the round will report, or Null
    timer,            \* the setTimeout pending in GamePlay: none, discard or end
    rounds,           \* history: the deals made so far
    reports,          \* history: the onGameEnd calls since the last deal
    balanceAtDeal     \* history: the balance when the last deal was pressed

\* The state of the table and of the session that owns it.
game == <<dealerCards, playerHands, activeHandIndex, gameState, isFirstAction, balance>>

\* The rest of the session's state, the pending report and the history.
session == <<homeShoe, gamePhase, currentBet, discardCount, gameEndDataRef, timer, rounds, reports, balanceAtDeal>>

vars == <<input, op, args, ret, shoe, drawn, game, session>>

(***************************************************************************)
(* Bounds of the model.                                                    *)
(***************************************************************************)
MaxLen == 3          \* longest hand handed to the engine

MaxSplitsDone == 4   \* largest numSplitsDone handed to canSplit

MaxValue == 22       \* largest hand value handed to determineOutcome

MaxBet == 7          \* bets handed to calculatePayout range over -MaxBet..MaxBet

MaxShoe == 3         \* longest shoe handed to drawCard

MaxShuffle == 4      \* longest sequence handed to shuffleCards

MaxDecks == 2        \* largest numDecks handed to createShoe

RandomGrain == 4     \* createShoe's Math.random() returns k / RandomGrain, k in 0..RandomGrain-1

MaxCount == 320      \* longest shoe handed to needsReshuffle

MaxHidden == 2       \* longest hand whose hidden cards are varied
MaxFrame == 3        \* longest array handed to an engine call on the heap
MaxRoundShoe == 7    \* longest shoe of aces, sixes and kings a round starts from
MaxPairShoe == 11    \* longest shoe of aces and kings a round starts from
MaxDeductions == 9   \* most bets taken from the balance in one round
MaxWindow == 6       \* shoe lengths above the reshuffle point a session is taken up at
MaxRounds == 1       \* most deals in a session
SessionGrain == 2    \* a session's createShoe draws its a and b below SessionGrain

(***************************************************************************)
(* Types and constants of the engine.                                      *)
(***************************************************************************)
Suit == {"S", "H", "D", "C"}

Rank == {"A", "2", "3", "4", "5", "6", "7", "8", "9", "10", "J", "Q", "K"}

DEFAULT_CONFIG ==
    [numDecks |-> 6,
     penetration |-> <<3, 4>>,     \* 0.75 as the fraction 3/4
     dealerHitsSoft17 |-> TRUE,
     dasAllowed |-> TRUE,
     rsaAllowed |-> FALSE,
     lateSurrenderAllowed |-> TRUE,
     maxSplits |-> 3]

CARD_VALUES(rank) ==
    CASE rank = "A" -> 11
      [] rank = "2" -> 2
      [] rank = "3" -> 3
      [] rank = "4" -> 4
      [] rank = "5" -> 5
      [] rank = "6" -> 6
      [] rank = "7" -> 7
      [] rank = "8" -> 8
      [] rank = "9" -> 9
      [] rank = "10" -> 10
      [] rank = "J" -> 10
      [] rank = "Q" -> 10
      [] rank = "K" -> 10

(***************************************************************************)
(* calculateHandValue.                                                     *)
(***************************************************************************)
\* Mutant of VisibleCards: the face-down cards are not filtered out.
VisibleCardsUnfiltered(cards) == cards

\* cards.filter(c => !c.faceDown)
VisibleCards(cards) == SelectSeq(cards, LAMBDA c : ~c.faceDown)

\* The for loop: value += CARD_VALUES[card.rank]; the result after the
\* first n cards of cs.
RECURSIVE SumValues(_, _)
SumValues(cs, n) ==
    IF n = 0 THEN 0 ELSE SumValues(cs, n - 1) + CARD_VALUES(cs[n].rank)

\* The for loop: if (card.rank === 'A') aces++
RECURSIVE CountAces(_, _)
CountAces(cs, n) ==
    IF n = 0 THEN 0
    ELSE CountAces(cs, n - 1) + (IF cs[n].rank = "A" THEN 1 ELSE 0)

\* Mutant of ReduceAces: an if in place of the while, so that at most one ace
\* is counted down.
ReduceAcesOnce(value, aces) ==
    IF value > 21 /\ aces > 0
    THEN [value |-> value - 10, aces |-> aces - 1]
    ELSE [value |-> value, aces |-> aces]

\* while (value > 21 && aces > 0) { value -= 10; aces--; }
RECURSIVE ReduceAces(_, _)
ReduceAces(value, aces) ==
    IF value > 21 /\ aces > 0
    THEN ReduceAces(value - 10, aces - 1)
    ELSE [value |-> value, aces |-> aces]

\* Mutant of calculateHandValue: isBlackjack tests cards.length instead of
\* visibleCards.length.
calculateHandValueCountsHidden(cards) ==
    LET visibleCards == VisibleCards(cards)
        r == ReduceAces(SumValues(visibleCards, Len(visibleCards)),
                        CountAces(visibleCards, Len(visibleCards)))
    IN  [value |-> r.value,
         isSoft |-> (r.aces > 0 /\ r.value <= 21),
         isBusted |-> (r.value > 21),
         isBlackjack |-> (Len(cards) = 2 /\ r.value = 21)]

\* Mutant of calculateHandValue: isBlackjack is value === 21 alone, the
\* number of visible cards is not tested.
calculateHandValueAny21(cards) ==
    LET visibleCards == VisibleCards(cards)
        r == ReduceAces(SumValues(visibleCards, Len(visibleCards)),
                        CountAces(visibleCards, Len(visibleCards)))
    IN  [value |-> r.value,
         isSoft |-> (r.aces > 0 /\ r.value <= 21),
         isBusted |-> (r.value > 21),
         isBlackjack |-> (r.value = 21)]

calculateHandValue(cards) ==
    LET visibleCards == VisibleCards(cards)
        r == ReduceAces(SumValues(visibleCards, Len(visibleCards)),
                        CountAces(visibleCards, Len(visibleCards)))
    IN  [value |-> r.value,
         isSoft |-> (r.aces > 0 /\ r.value <= 21),
         isBusted |-> (r.value > 21),
         isBlackjack |-> (Len(visibleCards) = 2 /\ r.value = 21)]

(***************************************************************************)
(* Dealer policy.                                                          *)
(***************************************************************************)
\* Mutant of dealerShouldHit: value <= 17 in place of value < 17.
dealerShouldHitOnHard17(dealerHand, config) ==
    LET result == calculateHandValue(dealerHand)
    IN  IF result.value <= 17 THEN TRUE
        ELSE IF result.value = 17 /\ result.isSoft /\ config.dealerHitsSoft17
             THEN TRUE
             ELSE FALSE

dealerShouldHit(dealerHand, config) ==
    LET result == calculateHandValue(dealerHand)
    IN  IF result.value < 17 THEN TRUE
        ELSE IF result.value = 17 /\ result.isSoft /\ config.dealerHitsSoft17
             THEN TRUE
             ELSE FALSE

\* dealerCards.map(c => ({ ...c, faceDown: false }))
Reveal(dealerHand) ==
    [i \in DOMAIN dealerHand |-> [dealerHand[i] EXCEPT !.faceDown = FALSE]]

\* Mutant of dealerHasBlackjack: the hole card is not revealed for the check.
dealerHasBlackjackNoReveal(dealerHand) ==
    IF Len(dealerHand) # 2 THEN FALSE
    ELSE calculateHandValue(dealerHand).isBlackjack

dealerHasBlackjack(dealerHand) ==
    IF Len(dealerHand) # 2 THEN FALSE
    ELSE calculateHandValue(Reveal(dealerHand)).isBlackjack

(***************************************************************************)
(* Action eligibility.                                                     *)
(***************************************************************************)
\* Mutant of canSplit: the re-split rule forgets numSplitsDone > 0, so aces
\* cannot be split at all without RSA.
canSplitNoAcesWithoutRsa(hand, numSplitsDone, isAces, config) ==
    IF numSplitsDone >= config.maxSplits THEN FALSE
    ELSE IF isAces /\ ~config.rsaAllowed THEN FALSE
    ELSE IF Len(hand) # 2 THEN FALSE
    ELSE LET rank1 == hand[1].rank
             rank2 == hand[2].rank
             tenValues == {"10", "J", "Q", "K"}
         IN  IF rank1 = rank2 THEN TRUE
             ELSE IF rank1 \in tenValues /\ rank2 \in tenValues THEN TRUE
             ELSE FALSE

canSplit(hand, numSplitsDone, isAces, config) ==
    IF numSplitsDone >= config.maxSplits THEN FALSE
    ELSE IF isAces /\ ~config.rsaAllowed /\ numSplitsDone > 0 THEN FALSE
    ELSE IF Len(hand) # 2 THEN FALSE
    ELSE LET rank1 == hand[1].rank
             rank2 == hand[2].rank
             tenValues == {"10", "J", "Q", "K"}
         IN  IF rank1 = rank2 THEN TRUE
             ELSE IF rank1 \in tenValues /\ rank2 \in tenValues THEN TRUE
             ELSE FALSE

\* Mutant of canDouble: the DAS rule is not checked.
canDoubleIgnoresDas(hand, isAfterSplit, config) ==
    IF Len(hand) # 2 THEN FALSE ELSE TRUE

canDouble(hand, isAfterSplit, config) ==
    IF Len(hand) # 2 THEN FALSE
    ELSE IF isAfterSplit /\ ~config.dasAllowed THEN FALSE
    ELSE TRUE

\* Mutant of canSurrender: the two-card test is dropped.
canSurrenderAnyLength(hand, firstAction, config) ==
    config.lateSurrenderAllowed /\ firstAction

canSurrender(hand, firstAction, config) ==
    config.lateSurrenderAllowed /\ firstAction /\ Len(hand) = 2

(***************************************************************************)
(* Outcome adjudication and payout.                                        *)
(***************************************************************************)
\* Mutant of determineOutcome: the dealer's bust is tested before the player's.
determineOutcomeDealerBustFirst(playerValue, playerBlackjack, playerBusted, dealerValue, dealerBlackjack, dealerBusted) ==
    IF dealerBusted THEN "win"
    ELSE IF playerBusted THEN "lose"
    ELSE IF playerBlackjack /\ dealerBlackjack THEN "push"
    ELSE IF playerBlackjack THEN "blackjack"
    ELSE IF dealerBlackjack THEN "lose"
    ELSE IF playerValue > dealerValue THEN "win"
    ELSE IF playerValue < dealerValue THEN "lose"
    ELSE "push"

\* Mutant of determineOutcome: the dealer's blackjack is tested before the
\* player's.
determineOutcomeDealerBlackjackFirst(playerValue, playerBlackjack, playerBusted, dealerValue, dealerBlackjack, dealerBusted) ==
    IF playerBusted THEN "lose"
    ELSE IF dealerBusted THEN "win"
    ELSE IF playerBlackjack /\ dealerBlackjack THEN "push"
    ELSE IF dealerBlackjack THEN "lose"
    ELSE IF playerValue > dealerValue THEN "win"
    ELSE IF playerValue < dealerValue THEN "lose"
    ELSE IF playerBlackjack THEN "blackjack"
    ELSE "push"

determineOutcome(playerValue, playerBlackjack, playerBusted, dealerValue, dealerBlackjack, dealerBusted) ==
    IF playerBusted THEN "lose"
    ELSE IF dealerBusted THEN "win"
    ELSE IF playerBlackjack /\ dealerBlackjack THEN "push"
    ELSE IF playerBlackjack THEN "blackjack"
    ELSE IF dealerBlackjack THEN "lose"
    ELSE IF playerValue > dealerValue THEN "win"
    ELSE IF playerValue < dealerValue THEN "lose"
    ELSE "push"

\* Mutant of calculatePayout: the payout is rounded down to a whole unit.
calculatePayoutFloored(bet, outcome) ==
    CASE outcome = "blackjack" -> 2 * ((5 * bet) \div 2)
      [] outcome = "win" -> 4 * bet
      [] outcome = "push" -> 2 * bet
      [] outcome = "surrender" -> 2 * (bet \div 2)
      [] outcome = "lose" -> 0

\* The bet is a whole number of units and the payout returned is counted in
\* halves of that unit: bet * 2.5 and bet * 0.5 are exact in the source's
\* floating point for a whole bet, and are 5 * bet and bet halves.
calculatePayout(bet, outcome) ==
    CASE outcome = "blackjack" -> 5 * bet
      [] outcome = "win" -> 4 * bet
      [] outcome = "push" -> 2 * bet
      [] outcome = "surrender" -> bet
      [] outcome = "lose" -> 0

(***************************************************************************)
(* Shoe management.                                                        *)
(***************************************************************************)
\* createShoe's suits and ranks arrays, in their order.
suits == <<"S", "H", "D", "C">>

ranks == <<"A", "2", "3", "4", "5", "6", "7", "8", "9", "10", "J", "Q", "K">>

\* Mutant of SwapCards: shuffled[i] = shuffled[j] without the assignment back.
SwapCardsOverwrites(shuffled, i, j) ==
    [shuffled EXCEPT ![i + 1] = shuffled[j + 1]]

\* [shuffled[i], shuffled[j]] = [shuffled[j], shuffled[i]], i and j counted
\* from 0 as in the source.
SwapCards(shuffled, i, j) ==
    [shuffled EXCEPT ![i + 1] = shuffled[j + 1], ![j + 1] = shuffled[i + 1]]

\* The iterations i = hi, hi - 1, ..., lo of the shuffle loop, in that order.
\* js[i] is the index Math.floor(Math.random() * (i + 1)) gave at iteration
\* i, some integer of 0..i.  The range is halved, and the array after the
\* upper half is evaluated (its length read, which a swap never changes)
\* before the lower half starts, so that the evaluation of a long loop stays
\* shallow.
RECURSIVE ShuffleSteps(_, _, _, _)
ShuffleSteps(shuffled, hi, lo, js) ==
    IF hi < lo THEN shuffled
    ELSE IF hi = lo THEN SwapCards(shuffled, hi, js[hi])
    ELSE LET mid == (hi + lo) \div 2
             upper == ShuffleSteps(shuffled, hi, mid + 1, js)
         IN  IF Len(upper) = Len(shuffled)
             THEN ShuffleSteps(upper, mid, lo, js)
             ELSE upper

\* for (let i = shuffled.length - 1; i > 0; i--) { j = ...; swap }
ShuffleLoop(shuffled, i, js) == ShuffleSteps(shuffled, i, 1, js)

\* shuffleCards under the random choices js: a copy of cards, shuffled.
shuffleCards(cards, js) == ShuffleLoop(cards, Len(cards) - 1, js)

\* The shoe createShoe builds before shuffling: for each deck d, for each
\* suit, for each rank, push { rank, suit } (no faceDown: face up).
OrderedShoe(numDecks) ==
    LET perDeck == Len(suits) * Len(ranks)
    IN  [k \in 1..(numDecks * perDeck) |->
            [rank |-> ranks[((k - 1) % Len(ranks)) + 1],
             suit |-> suits[(((k - 1) % perDeck) \div Len(ranks)) + 1],
             faceDown |-> FALSE]]

\* Mutant of createShoe: the deck loop starts at d = 1.
createShoeOneDeckFewer(numDecks, js) == shuffleCards(OrderedShoe(numDecks - 1), js)

createShoe(numDecks, js) == shuffleCards(OrderedShoe(numDecks), js)

\* Mutant of needsReshuffle: cardsUsed > cutPoint.
needsReshuffleStrict(s, config) ==
    LET totalCards == config.numDecks * 52
        cardsUsed == totalCards - Len(s)
    IN  cardsUsed * config.penetration[2] > totalCards * config.penetration[1]

\* config.penetration is the fraction <<p, q>>, so cutPoint is
\* totalCards * p / q and cardsUsed >= cutPoint is compared multiplied by q.
needsReshuffle(s, config) ==
    LET totalCards == config.numDecks * 52
        cardsUsed == totalCards - Len(s)
    IN  cardsUsed * config.penetration[2] >= totalCards * config.penetration[1]

\* The source's null.
Null == [null |-> TRUE]

\* Mutant of drawCard: shift() in place of pop(), the card comes off the front.
drawCardFromFront(s) ==
    IF Len(s) = 0 THEN Null
    ELSE [card |-> Head(s), remainingShoe |-> Tail(s)]

drawCard(s) ==
    IF Len(s) = 0 THEN Null
    ELSE LET newShoe == s
             card == newShoe[Len(newShoe)]
         IN  [card |-> card,
              remainingShoe |-> SubSeq(newShoe, 1, Len(newShoe) - 1)]

(***************************************************************************)
(* The inputs of the valuation specification: every hand of at most MaxLen *)
(* cards, each card of any rank, face up or face down.  No valuation or    *)
(* dealer-policy function reads a suit, so the hands carry one suit.       *)
(***************************************************************************)
SeqsUpTo(S, n) == UNION {[1..k -> S] : k \in 0..n}

\* useState(10000): the balance a session starts with.
StartBalance == 10000

\* Money is counted in halves of a unit, as calculatePayout's results are:
\* a whole amount n is Money(n).
Money(n) == 2 * n

\* No table is mounted: the state holds the useState initial values.
GameNotStarted ==
    /\ dealerCards = <<>>
    /\ playerHands = <<>>
    /\ activeHandIndex = 0
    /\ gameState = "dealing"
    /\ isFirstAction = TRUE
    /\ balance = Money(StartBalance)

\* No session is running: HomeScreen holds its useState initial values, no
\* report is pending and nothing has happened yet.
SessionNotStarted ==
    /\ homeShoe = <<>>
    /\ gamePhase = "betting"
    /\ currentBet = 0
    /\ discardCount = 0
    /\ gameEndDataRef = Null
    /\ timer = "none"
    /\ rounds = 0
    /\ reports = 0
    /\ balanceAtDeal = Money(StartBalance)

ValueCards == [rank : Rank, suit : {"S"}, faceDown : BOOLEAN]

ValueHands == SeqsUpTo(ValueCards, MaxLen)

\* The configurations that differ from the default in the dealer's rule.
DealerConfigs ==
    {[DEFAULT_CONFIG EXCEPT !.dealerHitsSoft17 = h] : h \in BOOLEAN}

ValueInit ==
    /\ input \in {[cards |-> h] : h \in ValueHands}
    /\ op = "none"
    /\ args = <<>>
    /\ ret = "none"
    /\ shoe = <<>>
    /\ drawn = <<>>
    /\ GameNotStarted
    /\ SessionNotStarted

CallCalculateHandValue ==
    /\ op = "none"
    /\ op' = "calculateHandValue"
    /\ args' = [cards |-> input.cards]
    /\ ret' = calculateHandValue(input.cards)
    /\ UNCHANGED <<input, shoe, drawn, game, session>>

CallDealerShouldHit ==
    /\ op = "none"
    /\ \E config \in DealerConfigs :
        /\ op' = "dealerShouldHit"
        /\ args' = [dealerCards |-> input.cards, config |-> config]
        /\ ret' = dealerShouldHit(input.cards, config)
    /\ UNCHANGED <<input, shoe, drawn, game, session>>

CallDealerHasBlackjack ==
    /\ op = "none"
    /\ op' = "dealerHasBlackjack"
    /\ args' = [dealerCards |-> input.cards]
    /\ ret' = dealerHasBlackjack(input.cards)
    /\ UNCHANGED <<input, shoe, drawn, game, session>>

ValueNext ==
    \/ CallCalculateHandValue
    \/ CallDealerShouldHit
    \/ CallDealerHasBlackjack

ValueSpec == ValueInit /\ [][ValueNext]_vars


(***************************************************************************)
(* Reference valuation, stated from the rules of the game and not from the *)
(* code: a visible ace counts 1 or 11, a ten or a face card 10, any other  *)
(* card the number printed on it.                                          *)
(***************************************************************************)
TenValues == {"10", "J", "Q", "K"}

VisibleIndices(cards) == {i \in DOMAIN cards : ~cards[i].faceDown}

\* The value of a card with every ace counted as 1.
RefLowValue(rank) ==
    IF rank = "A" THEN 1
    ELSE IF rank \in TenValues THEN 10
    ELSE CHOOSE n \in 2..9 : ToString(n) = rank

RECURSIVE RefLowTotalFrom(_, _)
RefLowTotalFrom(cards, i) ==
    IF i > Len(cards) THEN 0
    ELSE (IF cards[i].faceDown THEN 0 ELSE RefLowValue(cards[i].rank))
         + RefLowTotalFrom(cards, i + 1)

\* The total of the visible cards with every ace counted as 1.
RefLowTotal(cards) == RefLowTotalFrom(cards, 1)

RefVisibleAces(cards) ==
    Cardinality({i \in VisibleIndices(cards) : cards[i].rank = "A"})

\* Every total obtainable by counting k of the visible aces as 11.
RefTotals(cards) ==
    {RefLowTotal(cards) + 10 * k : k \in 0..RefVisibleAces(cards)}

RefValue(cards) ==
    LET good == {t \in RefTotals(cards) : t <= 21}
    IN  IF good # {}
        THEN CHOOSE t \in good : \A u \in good : u <= t
        ELSE RefLowTotal(cards)

\* The visible cards are exactly one ace and one ten-value card.
RefAceAndTen(cards) ==
    /\ Cardinality(VisibleIndices(cards)) = 2
    /\ \E i, j \in VisibleIndices(cards) :
        /\ i # j
        /\ cards[i].rank = "A"
        /\ cards[j].rank \in TenValues

\* C1: calculateHandValue agrees with the reference valuation of the visible
\* cards: value is the largest total of at most 21 obtainable by counting each
\* visible ace as 1 or 11, or the all-aces-as-1 total when there is none;
\* isBusted iff that value exceeds 21; isSoft iff the value counts an ace as 11
\* (so a busted hand is never soft).
C1_ValueMatchesReference ==
    op = "calculateHandValue" =>
        /\ ret.value = RefValue(args.cards)
        /\ ret.isBusted <=> (RefValue(args.cards) > 21)
        /\ ret.isSoft <=> (ret.value > RefLowTotal(args.cards))
        /\ ret.isBusted => ~ret.isSoft

\* Two visible aces and a nine: one ace is counted down, the other stays 11.
C1_Witness ==
    /\ op = "calculateHandValue"
    /\ Len(args.cards) = 3
    /\ RefVisibleAces(args.cards) = 2
    /\ ret.value = 21
    /\ ret.isSoft

\* C2: calculateHandValue reports isBlackjack iff exactly two of the cards are
\* visible and the value is 21, i.e. the visible cards are one ace and one
\* ten-value card.
C2_BlackjackIffTwoVisibleMake21 ==
    op = "calculateHandValue" =>
        /\ ret.isBlackjack <=>
            (Cardinality(VisibleIndices(args.cards)) = 2 /\ ret.value = 21)
        /\ ret.isBlackjack <=> RefAceAndTen(args.cards)

\* A blackjack reported on a three-card hand whose third card is face down.
C2_Witness ==
    /\ op = "calculateHandValue"
    /\ Len(args.cards) = 3
    /\ Cardinality(VisibleIndices(args.cards)) = 2
    /\ ret.isBlackjack

\* C6: dealerShouldHit is true iff the hand's value is below 17, or it is a
\* soft 17 and config.dealerHitsSoft17 is set; it is false for every hard 17
\* and for every value of 18 or more, busted hands included.
C6_DealerHitsBelow17OrSoft17 ==
    op = "dealerShouldHit" =>
        LET r == calculateHandValue(args.dealerCards)
            v == RefValue(args.dealerCards)
        IN  /\ ret <=> \/ r.value < 17
                       \/ r.value = 17 /\ r.isSoft /\ args.config.dealerHitsSoft17
            /\ v >= 18 => ~ret
            /\ (v = 17 /\ v = RefLowTotal(args.dealerCards)) => ~ret

\* The dealer hits a three-card soft 17 under the H17 rule.
C6_Witness ==
    /\ op = "dealerShouldHit"
    /\ Len(args.dealerCards) = 3
    /\ RefValue(args.dealerCards) = 17
    /\ RefLowTotal(args.dealerCards) = 7
    /\ args.config.dealerHitsSoft17
    /\ ret = TRUE

\* The hand with the same ranks and suits and the given faceDown flags.
WithFlags(cards, flags) ==
    [i \in DOMAIN cards |->
        [rank |-> cards[i].rank, suit |-> cards[i].suit, faceDown |-> flags[i]]]

\* C9: dealerHasBlackjack is true iff the hand has exactly 2 cards and, every
\* card treated as face up, calculateHandValue reports blackjack (one ace plus
\* one ten-value card); the faceDown flags of the two cards do not matter, and
\* a hand of any other length gives false.
C9_DealerBlackjackIgnoresFlags ==
    op = "dealerHasBlackjack" =>
        LET cards == args.dealerCards
            faceUp == WithFlags(cards, [i \in DOMAIN cards |-> FALSE])
        IN  /\ ret <=> (Len(cards) = 2 /\ calculateHandValue(faceUp).isBlackjack)
            /\ ret <=> (Len(cards) = 2 /\ RefAceAndTen(faceUp))
            /\ Len(cards) = 2 =>
                \A flags \in [DOMAIN cards -> BOOLEAN] :
                    dealerHasBlackjack(WithFlags(cards, flags)) = ret
            /\ Len(cards) # 2 => ret = FALSE

\* A dealer blackjack found while the hole card is still face down.
C9_Witness ==
    /\ op = "dealerHasBlackjack"
    /\ Len(args.dealerCards) = 2
    /\ args.dealerCards[2].faceDown
    /\ ret = TRUE


(***************************************************************************)
(* The eligibility specification: a player's hand (face up) of at most     *)
(* MaxLen cards is prepared, and canSplit, canDouble or canSurrender is    *)
(* called on it with every choice of flags and of the configuration fields *)
(* the function reads.                                                     *)
(***************************************************************************)
PlayerCards == [rank : Rank, suit : {"S"}, faceDown : {FALSE}]

PlayerHands == SeqsUpTo(PlayerCards, MaxLen)

SplitConfigs ==
    {[DEFAULT_CONFIG EXCEPT !.maxSplits = m, !.rsaAllowed = r] :
        m \in {1, DEFAULT_CONFIG.maxSplits}, r \in BOOLEAN}

DasConfigs == {[DEFAULT_CONFIG EXCEPT !.dasAllowed = d] : d \in BOOLEAN}

SurrenderConfigs ==
    {[DEFAULT_CONFIG EXCEPT !.lateSurrenderAllowed = l] : l \in BOOLEAN}

EligInit ==
    /\ input \in {[cards |-> h] : h \in PlayerHands}
    /\ op = "none"
    /\ args = <<>>
    /\ ret = "none"
    /\ shoe = <<>>
    /\ drawn = <<>>
    /\ GameNotStarted
    /\ SessionNotStarted

CallCanSplit ==
    /\ op = "none"
    /\ \E numSplitsDone \in 0..MaxSplitsDone, isAces \in BOOLEAN,
          config \in SplitConfigs :
        /\ op' = "canSplit"
        /\ args' = [hand |-> input.cards, numSplitsDone |-> numSplitsDone,
                    isAces |-> isAces, config |-> config]
        /\ ret' = canSplit(input.cards, numSplitsDone, isAces, config)
    /\ UNCHANGED <<input, shoe, drawn, game, session>>

CallCanDouble ==
    /\ op = "none"
    /\ \E isAfterSplit \in BOOLEAN, config \in DasConfigs :
        /\ op' = "canDouble"
        /\ args' = [hand |-> input.cards, isAfterSplit |-> isAfterSplit,
                    config |-> config]
        /\ ret' = canDouble(input.cards, isAfterSplit, config)
    /\ UNCHANGED <<input, shoe, drawn, game, session>>

\* isFromSplit is the provenance of the hand as the caller knows it
\* (PlayerHand.isFromSplit); canSurrender has no parameter for it.
CallCanSurrender ==
    /\ op = "none"
    /\ \E firstAction \in BOOLEAN, isFromSplit \in BOOLEAN,
          config \in SurrenderConfigs :
        /\ op' = "canSurrender"
        /\ args' = [hand |-> input.cards, isFirstAction |-> firstAction,
                    config |-> config, isFromSplit |-> isFromSplit]
        /\ ret' = canSurrender(input.cards, firstAction, config)
    /\ UNCHANGED <<input, shoe, drawn, game, session>>

EligNext ==
    \/ CallCanSplit
    \/ CallCanDouble
    \/ CallCanSurrender

EligSpec == EligInit /\ [][EligNext]_vars

\* C5: canSplit is true iff numSplitsDone < config.maxSplits, and not (isAces
\* and not config.rsaAllowed and numSplitsDone > 0), and the hand has exactly
\* 2 cards whose ranks are identical or both ten-valued; with numSplitsDone = 0
\* the result does not depend on rsaAllowed.
C5_CanSplitIff ==
    op = "canSplit" =>
        LET hand == args.hand
            n == args.numSplitsDone
            cfg == args.config
        IN  /\ ret <=>
                /\ n < cfg.maxSplits
                /\ ~(args.isAces /\ ~cfg.rsaAllowed /\ n > 0)
                /\ Len(hand) = 2
                /\ \/ hand[1].rank = hand[2].rank
                   \/ {hand[1].rank, hand[2].rank} \subseteq TenValues
            /\ n = 0 =>
                ret = canSplit(hand, n, args.isAces,
                               [cfg EXCEPT !.rsaAllowed = ~cfg.rsaAllowed])

\* A first split of aces is allowed although RSA is off.
C5_Witness ==
    /\ op = "canSplit"
    /\ args.isAces
    /\ ~args.config.rsaAllowed
    /\ args.numSplitsDone = 0
    /\ Len(args.hand) = 2
    /\ args.hand[1].rank = "A"
    /\ args.hand[2].rank = "A"
    /\ ret = TRUE

\* C7: canDouble is true iff the hand has exactly 2 cards and (isAfterSplit is
\* false or config.dasAllowed is true).
C7_CanDoubleIff ==
    op = "canDouble" =>
        (ret <=> (Len(args.hand) = 2
                  /\ (~args.isAfterSplit \/ args.config.dasAllowed)))

\* A two-card hand after a split is refused when DAS is off.
C7_Witness ==
    /\ op = "canDouble"
    /\ Len(args.hand) = 2
    /\ args.isAfterSplit
    /\ ~args.config.dasAllowed
    /\ ret = FALSE

\* C8: canSurrender is true iff config.lateSurrenderAllowed, isFirstAction and
\* the hand has exactly 2 cards, whether or not the hand came from a split.
C8_CanSurrenderIff ==
    op = "canSurrender" =>
        (ret <=> (args.config.lateSurrenderAllowed
                  /\ args.isFirstAction
                  /\ Len(args.hand) = 2))

\* The engine allows surrender on a hand that came from a split.
C8_Witness ==
    /\ op = "canSurrender"
    /\ args.isFromSplit
    /\ Len(args.hand) = 2
    /\ ret = TRUE

(***************************************************************************)
(* The adjudication specification: two hand values, or a bet, are          *)
(* prepared; determineOutcome is called on the values with every choice of *)
(* its four flags, calculatePayout on the bet with every outcome.          *)
(***************************************************************************)
Outcomes == {"win", "lose", "push", "blackjack", "surrender"}

AdjInit ==
    /\ input \in {[playerValue |-> p, dealerValue |-> d] :
                    p \in 0..MaxValue, d \in 0..MaxValue}
                 \cup {[bet |-> b] : b \in (-MaxBet)..MaxBet}
    /\ op = "none"
    /\ args = <<>>
    /\ ret = "none"
    /\ shoe = <<>>
    /\ drawn = <<>>
    /\ GameNotStarted
    /\ SessionNotStarted

CallDetermineOutcome ==
    /\ op = "none"
    /\ "playerValue" \in DOMAIN input
    /\ \E playerBlackjack \in BOOLEAN, playerBusted \in BOOLEAN,
          dealerBlackjack \in BOOLEAN, dealerBusted \in BOOLEAN :
        /\ op' = "determineOutcome"
        /\ args' = [playerValue |-> input.playerValue,
                    playerBlackjack |-> playerBlackjack,
                    playerBusted |-> playerBusted,
                    dealerValue |-> input.dealerValue,
                    dealerBlackjack |-> dealerBlackjack,
                    dealerBusted |-> dealerBusted]
        /\ ret' = determineOutcome(input.playerValue, playerBlackjack,
                                   playerBusted, input.dealerValue,
                                   dealerBlackjack, dealerBusted)
    /\ UNCHANGED <<input, shoe, drawn, game, session>>

CallCalculatePayout ==
    /\ op = "none"
    /\ "bet" \in DOMAIN input
    /\ \E outcome \in Outcomes :
        /\ op' = "calculatePayout"
        /\ args' = [bet |-> input.bet, outcome |-> outcome]
        /\ ret' = calculatePayout(input.bet, outcome)
    /\ UNCHANGED <<input, shoe, drawn, game, session>>

AdjNext ==
    \/ CallDetermineOutcome
    \/ CallCalculatePayout

AdjSpec == AdjInit /\ [][AdjNext]_vars

\* C3: determineOutcome returns, for every combination of its arguments, the
\* result of the first matching rule: playerBusted -> lose; dealerBusted ->
\* win; both blackjack -> push; playerBlackjack -> blackjack; dealerBlackjack
\* -> lose; otherwise win / lose / push by comparing the values.  It never
\* returns surrender, and a busted player loses even against a busted dealer.
C3_FirstMatchingRule ==
    op = "determineOutcome" =>
        LET a == args
            noBust == ~a.playerBusted /\ ~a.dealerBusted
            noBj == noBust /\ ~a.playerBlackjack /\ ~a.dealerBlackjack
        IN  /\ ret \in {"win", "lose", "push", "blackjack"}
            /\ a.playerBusted => ret = "lose"
            /\ (~a.playerBusted /\ a.dealerBusted) => ret = "win"
            /\ (noBust /\ a.playerBlackjack /\ a.dealerBlackjack) => ret = "push"
            /\ (noBust /\ a.playerBlackjack /\ ~a.dealerBlackjack)
                    => ret = "blackjack"
            /\ (noBust /\ ~a.playerBlackjack /\ a.dealerBlackjack) => ret = "lose"
            /\ (noBj /\ a.playerValue > a.dealerValue) => ret = "win"
            /\ (noBj /\ a.playerValue < a.dealerValue) => ret = "lose"
            /\ (noBj /\ a.playerValue = a.dealerValue) => ret = "push"

\* Player and dealer both busted: the player loses.
C3_Witness ==
    /\ op = "determineOutcome"
    /\ args.playerBusted
    /\ args.dealerBusted
    /\ ret = "lose"

\* C4: calculatePayout returns bet*2.5 for blackjack, bet*2 for win, bet for
\* push, bet*0.5 for surrender and 0 for lose, unrounded (here in halves: 5, 4,
\* 2, 1 and 0 times the bet), so that for a non-negative bet the payouts are
\* ordered blackjack >= win >= push >= surrender >= lose = 0.
C4_PayoutTable ==
    op = "calculatePayout" =>
        LET bet == args.bet
        IN  /\ args.outcome = "blackjack" => ret = 5 * bet
            /\ args.outcome = "win" => ret = 4 * bet
            /\ args.outcome = "push" => ret = 2 * bet
            /\ args.outcome = "surrender" => ret = bet
            /\ args.outcome = "lose" => ret = 0
            /\ bet >= 0 =>
                /\ calculatePayout(bet, "blackjack") >= calculatePayout(bet, "win")
                /\ calculatePayout(bet, "win") >= calculatePayout(bet, "push")
                /\ calculatePayout(bet, "push") >= calculatePayout(bet, "surrender")
                /\ calculatePayout(bet, "surrender") >= calculatePayout(bet, "lose")
                /\ calculatePayout(bet, "lose") = 0

\* A blackjack on an odd bet pays a fractional amount (an odd number of halves).
C4_Witness ==
    /\ op = "calculatePayout"
    /\ args.outcome = "blackjack"
    /\ args.bet > 0
    /\ args.bet % 2 = 1
    /\ ret % 2 = 1

(***************************************************************************)
(* The shoe specification: a shoe of at most MaxShoe cards is prepared and *)
(* the caller draws from it again and again, each time from the remainder  *)
(* the last draw returned (as handleHit does: if (!result) return; ...     *)
(* setShoe(result.remainingShoe)).                                         *)
(***************************************************************************)
ShoeCards == [rank : {"A", "7", "K"}, suit : Suit, faceDown : {FALSE}]

Shoes == SeqsUpTo(ShoeCards, MaxShoe)

ShoeInit ==
    /\ input \in {[shoe |-> s] : s \in Shoes}
    /\ op = "none"
    /\ args = <<>>
    /\ ret = "none"
    /\ shoe = input.shoe
    /\ drawn = <<>>
    /\ GameNotStarted
    /\ SessionNotStarted

CallDrawCard ==
    LET result == drawCard(shoe)
    IN  /\ op' = "drawCard"
        /\ args' = [shoe |-> shoe]
        /\ ret' = result
        /\ shoe' = IF result = Null THEN shoe ELSE result.remainingShoe
        /\ drawn' = IF result = Null THEN drawn ELSE Append(drawn, result.card)
        /\ UNCHANGED <<input, game, session>>

ShoeNext == CallDrawCard

ShoeSpec == ShoeInit /\ [][ShoeNext]_vars

\* C10: on a non-empty shoe drawCard returns the last element as card and the
\* shoe without it as remainingShoe (remainingShoe followed by card is the
\* input, and remainingShoe is one shorter); on the empty shoe it returns
\* null.  Chained on the remainders of an n-card shoe, the draws yield the
\* cards in reverse order, and the draw after the n-th returns null.
C10_DrawTakesLast ==
    op = "drawCard" =>
        LET s == args.shoe
            n == Len(input.shoe)
        IN  /\ s # <<>> =>
                /\ ret # Null
                /\ ret.card = s[Len(s)]
                /\ ret.remainingShoe = [i \in 1..(Len(s) - 1) |-> s[i]]
                /\ Append(ret.remainingShoe, ret.card) = s
                /\ Len(ret.remainingShoe) = Len(s) - 1
            /\ s = <<>> => ret = Null
            /\ \A k \in 1..Len(drawn) : drawn[k] = input.shoe[n - k + 1]
            /\ Len(shoe) + Len(drawn) = n
            /\ (ret = Null) <=> (Len(args.shoe) = 0)
            /\ ret = Null => Len(drawn) = n

\* Three different cards drawn in reverse order, then null.
C10_Witness ==
    /\ op = "drawCard"
    /\ Len(input.shoe) = 3
    /\ input.shoe[1] # input.shoe[3]
    /\ Len(drawn) = 3
    /\ drawn[1] = input.shoe[3]
    /\ ret = Null


(***************************************************************************)
(* The deck specification: a short card sequence, a number of decks or a   *)
(* shoe of some length is prepared; shuffleCards is called on the sequence *)
(* under every sequence of random indices, createShoe on the number of     *)
(* decks under a family of random index streams, needsReshuffle on the     *)
(* shoe under several configurations.                                      *)
(***************************************************************************)
\* The cards of the shuffle tests: card('A', spades), card('K', hearts),
\* card('Q', diamonds).
ShuffleCardSet ==
    {[rank |-> "A", suit |-> "S", faceDown |-> FALSE],
     [rank |-> "K", suit |-> "H", faceDown |-> FALSE],
     [rank |-> "Q", suit |-> "D", faceDown |-> FALSE]}

\* Every sequence of random indices a shuffle of n cards can draw.
IndexChoices(n) ==
    {js \in [1..(n - 1) -> 0..(n - 1)] : \A i \in 1..(n - 1) : js[i] <= i}

\* A bounded family of such sequences for a long shoe: Math.random() gives
\* ((a + b * i) % RandomGrain) / RandomGrain at iteration i, and the index is
\* Math.floor of that times (i + 1).
IndexStreams(n) ==
    {[i \in 1..(n - 1) |-> (((a + b * i) % RandomGrain) * (i + 1)) \div RandomGrain] :
        a \in 0..(RandomGrain - 1), b \in 0..(RandomGrain - 1)}

\* A shoe of n cards; needsReshuffle reads its length only
\* (new Array(70).fill(card('A')) in the tests).
ShoeOfLength(n) == [i \in 1..n |-> [rank |-> "A", suit |-> "S", faceDown |-> FALSE]]

\* 0.5, 0.75 and 1: fractions the source's floating point holds exactly.
ReshuffleConfigs ==
    {[DEFAULT_CONFIG EXCEPT !.numDecks = d, !.penetration = p] :
        d \in {1, DEFAULT_CONFIG.numDecks}, p \in {<<1, 2>>, <<3, 4>>, <<1, 1>>}}

DeckInit ==
    /\ input \in {[cards |-> c] : c \in SeqsUpTo(ShuffleCardSet, MaxShuffle)}
                 \cup {[numDecks |-> d] : d \in 0..MaxDecks}
                 \cup {[shoe |-> ShoeOfLength(n)] : n \in 0..MaxCount}
    /\ op = "none"
    /\ args = <<>>
    /\ ret = "none"
    /\ shoe = <<>>
    /\ drawn = <<>>
    /\ GameNotStarted
    /\ SessionNotStarted

CallShuffleCards ==
    /\ op = "none"
    /\ "cards" \in DOMAIN input
    /\ \E js \in IndexChoices(Len(input.cards)) :
        /\ op' = "shuffleCards"
        /\ args' = [cards |-> input.cards, js |-> js]
        /\ ret' = shuffleCards(input.cards, js)
    /\ UNCHANGED <<input, shoe, drawn, game, session>>

CallCreateShoe ==
    /\ op = "none"
    /\ "numDecks" \in DOMAIN input
    /\ \E js \in IndexStreams(input.numDecks * 52) :
        /\ op' = "createShoe"
        /\ args' = [numDecks |-> input.numDecks, js |-> js]
        /\ ret' = createShoe(input.numDecks, js)
    /\ UNCHANGED <<input, shoe, drawn, game, session>>

CallNeedsReshuffle ==
    /\ op = "none"
    /\ "shoe" \in DOMAIN input
    /\ \E config \in ReshuffleConfigs :
        /\ op' = "needsReshuffle"
        /\ args' = [shoe |-> input.shoe, config |-> config]
        /\ ret' = needsReshuffle(input.shoe, config)
    /\ UNCHANGED <<input, shoe, drawn, game, session>>

DeckNext ==
    \/ CallShuffleCards
    \/ CallCreateShoe
    \/ CallNeedsReshuffle

DeckSpec == DeckInit /\ [][DeckNext]_vars

\* The number of cards of cs that satisfy P.
CountCards(cs, P(_)) == Cardinality({i \in DOMAIN cs : P(cs[i])})

\* C11: whatever the shuffle chooses, createShoe(numDecks) has numDecks*52
\* cards, numDecks of each (rank, suit) pair (so 4*numDecks of each rank and
\* 13*numDecks of each suit), and no card face down.
C11_ShoeIsNumDecksFullDecks ==
    op = "createShoe" =>
        LET n == args.numDecks
        IN  /\ Len(ret) = n * 52
            /\ \A r \in Rank, s \in Suit :
                CountCards(ret, LAMBDA c : c.rank = r /\ c.suit = s) = n
            /\ \A r \in Rank : CountCards(ret, LAMBDA c : c.rank = r) = 4 * n
            /\ \A s \in Suit : CountCards(ret, LAMBDA c : c.suit = s) = 13 * n
            /\ \A i \in DOMAIN ret : ~ret[i].faceDown

\* A two-deck shoe whose first card is not the first card pushed.
C11_Witness ==
    /\ op = "createShoe"
    /\ args.numDecks = 2
    /\ Len(ret) = 104
    /\ ret[1] # OrderedShoe(2)[1]

\* C12: for every input and every sequence of random indices j in 0..i,
\* shuffleCards returns a permutation of its input: the same length and the
\* same number of copies of every card.
C12_ShuffleIsPermutation ==
    op = "shuffleCards" =>
        /\ Len(ret) = Len(args.cards)
        /\ \A c \in ShuffleCardSet :
            CountCards(ret, LAMBDA x : x = c) = CountCards(args.cards, LAMBDA x : x = c)

\* Four cards, one of them twice, returned in another order.
C12_Witness ==
    /\ op = "shuffleCards"
    /\ Len(args.cards) = 4
    /\ Cardinality({args.cards[i] : i \in DOMAIN args.cards}) = 3
    /\ ret # args.cards

\* C13: needsReshuffle is true iff numDecks*52 - shoe.length >=
\* numDecks*52*penetration; under the default configuration (6 decks, 0.75)
\* that is exactly when the shoe holds 78 cards or fewer, so a full 312-card
\* shoe gives false and a 70-card shoe gives true.
C13_ReshuffleAtPenetration ==
    op = "needsReshuffle" =>
        LET cfg == args.config
            len == Len(args.shoe)
        IN  /\ ret <=> ((cfg.numDecks * 52 - len) * cfg.penetration[2]
                            >= cfg.numDecks * 52 * cfg.penetration[1])
            /\ cfg = DEFAULT_CONFIG =>
                /\ ret <=> (len <= 78)
                /\ len = 312 => ret = FALSE
                /\ len = 70 => ret = TRUE

\* Exactly at the cut point of the default configuration: 78 cards left.
C13_Witness ==
    /\ op = "needsReshuffle"
    /\ args.config = DEFAULT_CONFIG
    /\ Len(args.shoe) = 78
    /\ ret = TRUE


(***************************************************************************)
(* The hidden-card specification: a hand of at most MaxHidden cards is     *)
(* prepared together with a second hand that differs from it in one        *)
(* face-down card (its rank, its suit, or whether it is there at all), and *)
(* calculateHandValue is called on both.                                   *)
(***************************************************************************)
\* cs with card c put in after its first p cards.
InsertAt(cs, p, c) ==
    [i \in 1..(Len(cs) + 1) |->
        IF i <= p THEN cs[i] ELSE IF i = p + 1 THEN c ELSE cs[i - 1]]

\* cs without its p-th card.
RemoveAt(cs, p) ==
    [i \in 1..(Len(cs) - 1) |-> IF i < p THEN cs[i] ELSE cs[i + 1]]

HiddenIndices(cards) == {i \in DOMAIN cards : cards[i].faceDown}

\* The hands one change of a face-down card away from cards.
HiddenVariants(cards) ==
    {[cards EXCEPT ![i].rank = r] : i \in HiddenIndices(cards), r \in Rank}
    \cup {[cards EXCEPT ![i].suit = s] : i \in HiddenIndices(cards), s \in Suit}
    \cup {RemoveAt(cards, i) : i \in HiddenIndices(cards)}
    \cup {InsertAt(cards, p, [rank |-> r, suit |-> "S", faceDown |-> TRUE]) :
            p \in 0..Len(cards), r \in Rank}

HiddenInit ==
    /\ input \in {[cards |-> h] : h \in SeqsUpTo(ValueCards, MaxHidden)}
    /\ op = "none"
    /\ args = <<>>
    /\ ret = "none"
    /\ shoe = <<>>
    /\ drawn = <<>>
    /\ GameNotStarted
    /\ SessionNotStarted

CallOnHiddenVariant ==
    /\ op = "none"
    /\ \E other \in HiddenVariants(input.cards) :
        /\ op' = "calculateHandValue twice"
        /\ args' = [cards |-> input.cards, other |-> other]
        /\ ret' = [first |-> calculateHandValue(input.cards),
                   second |-> calculateHandValue(other)]
    /\ UNCHANGED <<input, shoe, drawn, game, session>>

HiddenNext == CallOnHiddenVariant

HiddenSpec == HiddenInit /\ [][HiddenNext]_vars

\* The face-up cards of a hand, in order.
RECURSIVE FaceUpFrom(_, _)
FaceUpFrom(cards, i) ==
    IF i > Len(cards) THEN <<>>
    ELSE IF cards[i].faceDown THEN FaceUpFrom(cards, i + 1)
    ELSE <<cards[i]>> \o FaceUpFrom(cards, i + 1)

\* C14: calculateHandValue depends only on the visible cards: two hands that
\* differ only in face-down cards (their rank, their suit, how many there are)
\* get the same value, isSoft, isBusted and isBlackjack; a hand with no
\* visible card gets value 0, not soft, not busted, not blackjack.
C14_HiddenCardsDoNotCount ==
    op = "calculateHandValue twice" =>
        /\ FaceUpFrom(args.cards, 1) = FaceUpFrom(args.other, 1) =>
            /\ ret.first.value = ret.second.value
            /\ ret.first.isSoft = ret.second.isSoft
            /\ ret.first.isBusted = ret.second.isBusted
            /\ ret.first.isBlackjack = ret.second.isBlackjack
        /\ FaceUpFrom(args.cards, 1) = <<>> =>
            ret.first = [value |-> 0, isSoft |-> FALSE,
                         isBusted |-> FALSE, isBlackjack |-> FALSE]

\* A hard hand with a face-down ace added to it: still hard, the same value.
C14_Witness ==
    /\ op = "calculateHandValue twice"
    /\ Len(args.cards) = 2
    /\ HiddenIndices(args.cards) = {}
    /\ Len(args.other) = 3
    /\ \E i \in HiddenIndices(args.other) : args.other[i].rank = "A"
    /\ FaceUpFrom(args.cards, 1) = FaceUpFrom(args.other, 1)
    /\ ret.first.value = 15
    /\ ~ret.second.isSoft


(***************************************************************************)
(* The frame specification.  JavaScript arrays and objects are references: *)
(* the heap holds the card objects and the arrays of references to them.   *)
(* The caller's array is array 1.  Each engine operation is run on the     *)
(* heap as its code runs, allocating what the code allocates ([...a], map, *)
(* { ...c }) and writing where the code writes (pop, the swap).            *)
(***************************************************************************)
CallerArray == 1

\* The heap in which the caller holds the array of these cards.
HeapOf(cards) ==
    [objects |-> cards, arrays |-> <<[i \in 1..Len(cards) |-> i]>>]

\* The cards an array refers to, in order.
Deref(heap, a) ==
    [i \in 1..Len(heap.arrays[a]) |-> heap.objects[heap.arrays[a][i]]]

\* Mutant of SpreadArray: no copy is made, the new name is the same array.
SpreadArrayAliased(heap, a) == [heap |-> heap, ref |-> a]

\* [...a]: a new array referring to the same objects.
SpreadArray(heap, a) ==
    [heap |-> [heap EXCEPT !.arrays = Append(@, heap.arrays[a])],
     ref |-> Len(heap.arrays) + 1]

\* a.pop(): the array loses its last element in place.
PopArray(heap, a) ==
    [heap EXCEPT !.arrays[a] = SubSeq(@, 1, Len(@) - 1)]

\* a.map(c => ({ ...c, faceDown: false })): new objects in a new array.
MapRevealed(heap, a) ==
    LET n == Len(heap.arrays[a])
        base == Len(heap.objects)
        fresh == [i \in 1..n |->
                    [heap.objects[heap.arrays[a][i]] EXCEPT !.faceDown = FALSE]]
    IN  [heap |-> [objects |-> heap.objects \o fresh,
                   arrays |-> Append(heap.arrays, [i \in 1..n |-> base + i])],
         ref |-> Len(heap.arrays) + 1]

drawCardOnHeap(heap, a) ==
    IF Len(heap.arrays[a]) = 0 THEN [heap |-> heap, result |-> Null]
    ELSE LET copy == SpreadArray(heap, a)
             newShoe == copy.ref
             card == copy.heap.objects[copy.heap.arrays[newShoe][Len(copy.heap.arrays[newShoe])]]
             popped == PopArray(copy.heap, newShoe)
         IN  [heap |-> popped,
              result |-> [card |-> card,
                          remainingShoe |-> Deref(popped, newShoe)]]

shuffleCardsOnHeap(heap, a, js) ==
    LET copy == SpreadArray(heap, a)
        shuffled == copy.ref
        swapped == [copy.heap EXCEPT
                      !.arrays[shuffled] = ShuffleLoop(@, Len(@) - 1, js)]
    IN  [heap |-> swapped, result |-> Deref(swapped, shuffled)]

dealerHasBlackjackOnHeap(heap, a) ==
    IF Len(heap.arrays[a]) # 2 THEN [heap |-> heap, result |-> FALSE]
    ELSE LET mapped == MapRevealed(heap, a)
             revealedCards == Deref(mapped.heap, mapped.ref)
         IN  [heap |-> mapped.heap,
              result |-> calculateHandValue(revealedCards).isBlackjack]

FrameCards == [rank : {"A", "7", "K"}, suit : {"S"}, faceDown : BOOLEAN]

FrameInit ==
    /\ input \in {HeapOf(cs) : cs \in SeqsUpTo(FrameCards, MaxFrame)}
    /\ op = "none"
    /\ args = <<>>
    /\ ret = "none"
    /\ shoe = <<>>
    /\ drawn = <<>>
    /\ GameNotStarted
    /\ SessionNotStarted

CallDrawCardOnHeap ==
    /\ op = "none"
    /\ LET run == drawCardOnHeap(input, CallerArray)
       IN  /\ op' = "drawCard"
           /\ args' = [cards |-> Deref(input, CallerArray)]
           /\ input' = run.heap
           /\ ret' = run.result
    /\ UNCHANGED <<shoe, drawn, game, session>>

CallShuffleCardsOnHeap ==
    /\ op = "none"
    /\ \E js \in IndexChoices(Len(input.arrays[CallerArray])) :
        LET run == shuffleCardsOnHeap(input, CallerArray, js)
        IN  /\ op' = "shuffleCards"
            /\ args' = [cards |-> Deref(input, CallerArray), js |-> js]
            /\ input' = run.heap
            /\ ret' = run.result
    /\ UNCHANGED <<shoe, drawn, game, session>>

CallDealerHasBlackjackOnHeap ==
    /\ op = "none"
    /\ LET run == dealerHasBlackjackOnHeap(input, CallerArray)
       IN  /\ op' = "dealerHasBlackjack"
           /\ args' = [cards |-> Deref(input, CallerArray)]
           /\ input' = run.heap
           /\ ret' = run.result
    /\ UNCHANGED <<shoe, drawn, game, session>>

FrameNext ==
    \/ CallDrawCardOnHeap
    \/ CallShuffleCardsOnHeap
    \/ CallDealerHasBlackjackOnHeap

FrameSpec == FrameInit /\ [][FrameNext]_vars

\* C15: no engine operation changes its input: after drawCard(shoe) the
\* caller's shoe is as it was (same length, same order) whether or not a
\* card came back, after shuffleCards(cards) the input sequence is as it was,
\* and after dealerHasBlackjack(cards) the caller's cards keep their
\* faceDown flags.  The values returned are those of the engine operations.
C15_InputsAreNotMutated ==
    op # "none" =>
        /\ Deref(input, CallerArray) = args.cards
        /\ op = "drawCard" => ret = drawCard(args.cards)
        /\ op = "shuffleCards" => ret = shuffleCards(args.cards, args.js)
        /\ op = "dealerHasBlackjack" => ret = dealerHasBlackjack(args.cards)

\* A card was drawn from a three-card shoe: the remainder has two cards, the
\* caller's shoe still three.
C15_Witness ==
    /\ op = "drawCard"
    /\ ret # Null
    /\ Len(args.cards) = 3
    /\ Len(ret.remainingShoe) = 2
    /\ Len(input.arrays[CallerArray]) = 3
    /\ ret.card = args.cards[3]

(***************************************************************************)
(* The table: the GamePlay component (gameplay.tsx).  React applies the    *)
(* state updates of one handler together, so a handler is one step; the    *)
(* intermediate 'dealerTurn' set at the start of playDealerTurn is         *)
(* overwritten by 'complete' in the same step.  The isNew flag of a card   *)
(* only drives the animation and is left out.                              *)
(***************************************************************************)
\* result?: the result of a hand that has none yet.
NoResult == "undefined"

\* hand.result as a condition
HasResult(hand) == hand.result # NoResult

NewHand(cards, bet, isFromSplit, isSplitAces, result) ==
    [cards |-> cards, bet |-> bet, isDoubled |-> FALSE,
     isFromSplit |-> isFromSplit, isSplitAces |-> isSplitAces,
     result |-> result]

\* { ...card, faceDown: b }
WithFaceDown(card, b) == [card EXCEPT !.faceDown = b]

\* Mutant of DealerDraws: the cards the dealer draws are added face down.
RECURSIVE DealerDrawsFaceDown(_, _)
DealerDrawsFaceDown(currentDealerCards, workingShoe) ==
    IF dealerShouldHit(currentDealerCards, DEFAULT_CONFIG)
    THEN LET result == drawCard(workingShoe)
         IN  IF result = Null
             THEN [dealerCards |-> currentDealerCards, shoe |-> workingShoe]
             ELSE DealerDrawsFaceDown(
                      Append(currentDealerCards, WithFaceDown(result.card, TRUE)),
                      result.remainingShoe)
    ELSE [dealerCards |-> currentDealerCards, shoe |-> workingShoe]

\* while (dealerShouldHit(currentDealerCards)) { draw; if (!result) break; ... }
RECURSIVE DealerDraws(_, _)
DealerDraws(currentDealerCards, workingShoe) ==
    IF dealerShouldHit(currentDealerCards, DEFAULT_CONFIG)
    THEN LET result == drawCard(workingShoe)
         IN  IF result = Null
             THEN [dealerCards |-> currentDealerCards, shoe |-> workingShoe]
             ELSE DealerDraws(
                      Append(currentDealerCards, WithFaceDown(result.card, FALSE)),
                      result.remainingShoe)
    ELSE [dealerCards |-> currentDealerCards, shoe |-> workingShoe]

\* Mutant of PlayerBlackjack: the split provenance is not looked at.
PlayerBlackjackAfterSplit(hand, playerValue) == playerValue.isBlackjack

\* playerValue.isBlackjack && !hand.isFromSplit
PlayerBlackjack(hand, playerValue) ==
    playerValue.isBlackjack /\ ~hand.isFromSplit

\* The outcome playDealerTurn gives a hand against the dealer's final value.
HandOutcome(hand, dealerValue) ==
    LET playerValue == calculateHandValue(hand.cards)
    IN  determineOutcome(playerValue.value,
                         PlayerBlackjack(hand, playerValue),
                         playerValue.isBusted,
                         dealerValue.value,
                         dealerValue.isBlackjack,
                         dealerValue.isBusted)

\* Mutant of AdjudicateHands: a hand that has a result is adjudicated again.
AdjudicateHandsAnew(currentHands, dealerValue) ==
    [i \in DOMAIN currentHands |->
        [currentHands[i] EXCEPT !.result = HandOutcome(currentHands[i], dealerValue)]]

\* currentHands.map(hand => hand.result ? hand : { ...hand, result: outcome })
AdjudicateHands(currentHands, dealerValue) ==
    [i \in DOMAIN currentHands |->
        IF HasResult(currentHands[i]) THEN currentHands[i]
        ELSE [currentHands[i] EXCEPT
                !.result = HandOutcome(currentHands[i], dealerValue)]]

playDealerTurn(currentHands, currentShoe) ==
    LET loop == DealerDraws(Reveal(dealerCards), currentShoe)
        dealerValue == calculateHandValue(loop.dealerCards)
    IN  /\ dealerCards' = loop.dealerCards
        /\ shoe' = loop.shoe
        /\ playerHands' = AdjudicateHands(currentHands, dealerValue)
        /\ gameState' = "complete"

\* Mutant of moveToNextHand: the next index is two further on.
moveToNextHandSkipsOne(currentHands, currentShoe, firstAction) ==
    LET nextIndex == activeHandIndex + 2
    IN  IF nextIndex < Len(currentHands)
        THEN /\ activeHandIndex' = nextIndex
             /\ isFirstAction' = TRUE
             /\ playerHands' = currentHands
             /\ shoe' = currentShoe
             /\ UNCHANGED <<dealerCards, gameState>>
        ELSE /\ playDealerTurn(currentHands, currentShoe)
             /\ isFirstAction' = firstAction
             /\ UNCHANGED activeHandIndex

\* firstAction is the value the handler has given isFirstAction so far.
moveToNextHand(currentHands, currentShoe, firstAction) ==
    LET nextIndex == activeHandIndex + 1
    IN  IF nextIndex < Len(currentHands)
        THEN /\ activeHandIndex' = nextIndex
             /\ isFirstAction' = TRUE
             /\ playerHands' = currentHands
             /\ shoe' = currentShoe
             /\ UNCHANGED <<dealerCards, gameState>>
        ELSE /\ playDealerTurn(currentHands, currentShoe)
             /\ isFirstAction' = firstAction
             /\ UNCHANGED activeHandIndex

\* playerHands[activeHandIndex]
activeHand == playerHands[activeHandIndex + 1]

\* gameState === 'playerTurn' && activeHand
PlayerMayAct == gameState = "playerTurn" /\ activeHandIndex < Len(playerHands)

showHit == PlayerMayAct /\ ~activeHand.isSplitAces

showStand == PlayerMayAct

showDouble ==
    PlayerMayAct /\ canDouble(activeHand.cards, activeHand.isFromSplit, DEFAULT_CONFIG)

\* Mutant of showSplit: the index of the active hand is taken for the number
\* of splits done.
showSplitCountsActiveIndex ==
    PlayerMayAct /\ canSplit(activeHand.cards, activeHandIndex, activeHand.isSplitAces, DEFAULT_CONFIG)

showSplit ==
    PlayerMayAct /\ canSplit(activeHand.cards, Len(playerHands) - 1, activeHand.isSplitAces, DEFAULT_CONFIG)

\* Mutant of showSurrender: the split provenance of the hand is not tested.
showSurrenderAfterSplit ==
    /\ PlayerMayAct
    /\ canSurrender(activeHand.cards, isFirstAction, DEFAULT_CONFIG)

showSurrender ==
    /\ PlayerMayAct
    /\ canSurrender(activeHand.cards, isFirstAction, DEFAULT_CONFIG)
    /\ ~activeHand.isFromSplit

\* Mutant of SplitEndsPlayerTurn: split aces are played on like any pair.
SplitNeverEndsPlayerTurn(isAces) == FALSE

\* if (isAces) playDealerTurn(...) else setIsFirstAction(true)
SplitEndsPlayerTurn(isAces) == isAces

\* updatedHands.splice(activeHandIndex, 1, hand1, hand2)
Splice(hands, index, hand1, hand2) ==
    SubSeq(hands, 1, index) \o <<hand1, hand2>> \o SubSeq(hands, index + 2, Len(hands))

\* The shoes a round is dealt from: the last card is the top of the shoe.
\* At least four cards, as the deal pops four without looking.
RoundCards(rankSet) == [rank : rankSet, suit : {"S"}, faceDown : {FALSE}]

RoundShoes ==
    {s \in SeqsUpTo(RoundCards({"A", "6", "K"}), MaxRoundShoe) : Len(s) >= 4}
    \cup {s \in SeqsUpTo(RoundCards({"A", "K"}), MaxPairShoe) : Len(s) >= 4}

\* The bets a round is played for (sums of CHIP_VALUES).
RoundBets == {10, 25}

\* The balance can still give one more bet within the bound of the model
\* (the code takes the bet whatever the balance is).
WithinDeductions ==
    balance - Money(input.bet) >= balanceAtDeal - MaxDeductions * Money(input.bet)

\* The table as mounted by handleDeal: the bet is taken from the balance and
\* GamePlay holds its useState initial values.
RoundInit ==
    /\ input \in [initialShoe : RoundShoes, bet : RoundBets]
    /\ op = "none"
    /\ args = <<>>
    /\ ret = "none"
    /\ shoe = <<>>
    /\ drawn = <<>>
    /\ dealerCards = <<>>
    /\ playerHands = <<>>
    /\ activeHandIndex = 0
    /\ gameState = "dealing"
    /\ isFirstAction = TRUE
    /\ balance = Money(StartBalance) - Money(input.bet)
    /\ homeShoe = input.initialShoe
    /\ gamePhase = "playing"
    /\ currentBet = input.bet
    /\ discardCount = 0
    /\ gameEndDataRef = Null
    /\ timer = "none"
    /\ rounds = 1
    /\ reports = 0
    /\ balanceAtDeal = Money(StartBalance)

\* The initial-deal effect.
DealInitialCards ==
    /\ gamePhase = "playing"
    /\ gameState = "dealing"
    /\ LET n == Len(input.initialShoe)
           playerCard1 == input.initialShoe[n]
           dealerCard1 == WithFaceDown(input.initialShoe[n - 1], FALSE)
           playerCard2 == input.initialShoe[n - 2]
           dealerCard2 == WithFaceDown(input.initialShoe[n - 3], TRUE)
           newShoe == SubSeq(input.initialShoe, 1, n - 4)
           revealed == <<dealerCard1, WithFaceDown(dealerCard2, FALSE)>>
           dealerHasBJ == dealerHasBlackjack(revealed)
           playerResult == calculateHandValue(<<playerCard1, playerCard2>>)
           dealt(result) ==
               <<NewHand(<<playerCard1, playerCard2>>, input.bet, FALSE, FALSE, result)>>
       IN  /\ shoe' = newShoe
           /\ IF dealerHasBJ
              THEN /\ dealerCards' = revealed
                   /\ playerHands' =
                        dealt(IF playerResult.isBlackjack THEN "push" ELSE "lose")
                   /\ gameState' = "complete"
              ELSE IF playerResult.isBlackjack
              THEN /\ dealerCards' = revealed
                   /\ playerHands' = dealt("blackjack")
                   /\ gameState' = "complete"
              ELSE /\ dealerCards' = <<dealerCard1, dealerCard2>>
                   /\ playerHands' = dealt(NoResult)
                   /\ gameState' = "playerTurn"
    /\ op' = "dealInitialCards"
    /\ UNCHANGED <<input, args, ret, drawn, activeHandIndex, isFirstAction, balance, session>>

handleHit ==
    /\ showHit
    /\ op' = "handleHit"
    /\ LET result == drawCard(shoe)
       IN  IF result = Null
           THEN /\ isFirstAction' = FALSE
                /\ UNCHANGED <<shoe, dealerCards, playerHands, activeHandIndex, gameState>>
           ELSE LET newCards == Append(activeHand.cards, result.card)
                    newValue == calculateHandValue(newCards)
                    updatedHands ==
                        [playerHands EXCEPT ![activeHandIndex + 1].cards = newCards]
                IN  IF newValue.isBusted
                    THEN moveToNextHand(
                             [updatedHands EXCEPT ![activeHandIndex + 1].result = "lose"],
                             result.remainingShoe, FALSE)
                    ELSE /\ shoe' = result.remainingShoe
                         /\ playerHands' = updatedHands
                         /\ isFirstAction' = FALSE
                         /\ UNCHANGED <<dealerCards, activeHandIndex, gameState>>
    /\ UNCHANGED <<input, args, ret, drawn, balance, session>>

handleStand ==
    /\ showStand
    /\ op' = "handleStand"
    /\ moveToNextHand(playerHands, shoe, FALSE)
    /\ UNCHANGED <<input, args, ret, drawn, balance, session>>

\* Mutant of handleBetChange: the additional bet is credited, not taken.
handleBetChangeCredits(additionalBet) ==
    balance' = balance + Money(additionalBet)

\* HomeScreen's handleBetChange, the onBetChange prop of GamePlay.
handleBetChange(additionalBet) ==
    balance' = balance - Money(additionalBet)

handleDouble ==
    /\ showDouble
    /\ WithinDeductions
    /\ op' = "handleDouble"
    /\ LET result == drawCard(shoe)
       IN  IF result = Null
           THEN /\ isFirstAction' = FALSE
                /\ UNCHANGED <<shoe, dealerCards, playerHands, activeHandIndex,
                               gameState, balance>>
           ELSE LET newCards == Append(activeHand.cards, result.card)
                    newValue == calculateHandValue(newCards)
                    updatedHands ==
                        [playerHands EXCEPT ![activeHandIndex + 1] =
                            [activeHand EXCEPT
                                !.cards = newCards,
                                !.bet = activeHand.bet * 2,
                                !.isDoubled = TRUE,
                                !.result = IF newValue.isBusted THEN "lose"
                                           ELSE NoResult]]
                IN  /\ handleBetChange(activeHand.bet)
                    /\ moveToNextHand(updatedHands, result.remainingShoe, FALSE)
    /\ UNCHANGED <<input, args, ret, drawn, session>>

handleSplit ==
    /\ showSplit
    /\ WithinDeductions
    /\ op' = "handleSplit"
    /\ handleBetChange(activeHand.bet)
    /\ LET card1 == activeHand.cards[1]
           card2 == activeHand.cards[2]
           isAces == card1.rank = "A"
           draw1 == drawCard(shoe)
           draw2 == drawCard(draw1.remainingShoe)
       IN  IF draw1 = Null \/ draw2 = Null
           THEN /\ isFirstAction' = FALSE
                /\ UNCHANGED <<shoe, dealerCards, playerHands, activeHandIndex, gameState>>
           ELSE LET currentShoe == draw2.remainingShoe
                    hand1 == NewHand(<<card1, draw1.card>>, activeHand.bet,
                                     TRUE, isAces, NoResult)
                    hand2 == NewHand(<<card2, draw2.card>>, activeHand.bet,
                                     TRUE, isAces, NoResult)
                    updatedHands == Splice(playerHands, activeHandIndex, hand1, hand2)
                IN  IF SplitEndsPlayerTurn(isAces)
                    THEN /\ playDealerTurn(updatedHands, currentShoe)
                         /\ isFirstAction' = FALSE
                         /\ UNCHANGED activeHandIndex
                    ELSE /\ shoe' = currentShoe
                         /\ playerHands' = updatedHands
                         /\ isFirstAction' = TRUE
                         /\ UNCHANGED <<dealerCards, activeHandIndex, gameState>>
    /\ UNCHANGED <<input, args, ret, drawn, session>>

handleSurrender ==
    /\ showSurrender
    /\ op' = "handleSurrender"
    /\ moveToNextHand(
           [playerHands EXCEPT ![activeHandIndex + 1].result = "surrender"],
           shoe, isFirstAction)
    /\ UNCHANGED <<input, args, ret, drawn, balance, session>>

RoundNext ==
    \/ DealInitialCards
    \/ handleHit
    \/ handleStand
    \/ handleDouble
    \/ handleSplit
    \/ handleSurrender

RoundSpec == RoundInit /\ [][RoundNext]_vars

\* The number of cards in the player's hands.
RECURSIVE CardsIn(_)
CardsIn(hands) ==
    IF hands = <<>> THEN 0 ELSE Len(Head(hands).cards) + CardsIn(Tail(hands))

\* C16: the dealer's drawing loop ends for every shoe, having drawn no more
\* cards than the shoe held; when it ends the shoe is empty or the dealer's
\* value is at least 17 and not a soft 17; every card the dealer drew is the
\* card then on top of the working shoe, added face up; the hole card is
\* revealed before the first decision, and each draw was made because
\* dealerShouldHit held for the revealed cards so far.
C16_DealerDrawsToSeventeen ==
    [][(gameState = "playerTurn" /\ gameState' = "complete") =>
        LET byPlayer == CardsIn(playerHands') - CardsIn(playerHands)
            d == Len(dealerCards') - Len(dealerCards)
            top == Len(shoe) - byPlayer
            final == calculateHandValue(dealerCards')
        IN  /\ d >= 0
            /\ d <= top
            /\ shoe' = SubSeq(shoe, 1, top - d)
            /\ SubSeq(dealerCards', 1, Len(dealerCards)) =
                 [i \in DOMAIN dealerCards |-> [dealerCards[i] EXCEPT !.faceDown = FALSE]]
            /\ \A j \in 1..d :
                 /\ dealerCards'[Len(dealerCards) + j] =
                      [shoe[top - j + 1] EXCEPT !.faceDown = FALSE]
                 /\ dealerShouldHit(SubSeq(dealerCards', 1, Len(dealerCards) + j - 1),
                                    DEFAULT_CONFIG)
            /\ \/ shoe' = <<>>
               \/ /\ ~dealerShouldHit(dealerCards', DEFAULT_CONFIG)
                  /\ final.value >= 17
                  /\ ~(final.value = 17 /\ final.isSoft)
    ]_vars

\* The dealer held a soft 17 (ace and six), drew, and stopped with cards
\* left in the shoe.
C16_Witness ==
    /\ gameState = "complete"
    /\ op = "handleStand"
    /\ Len(dealerCards) >= 3
    /\ dealerCards[1].rank = "A"
    /\ dealerCards[2].rank = "6"
    /\ shoe # <<>>
    /\ calculateHandValue(dealerCards).value >= 17

\* C17: a hand created by a split never has the result 'blackjack', even when
\* its two cards total 21: once adjudicated it has the result of an ordinary
\* 21 against the dealer's cards (win, push or lose); a hand that has
\* 'blackjack' is the original unsplit hand, alone on the table, with its
\* two cards making 21.
C17_NoBlackjackAfterSplit ==
    \A i \in DOMAIN playerHands :
        LET hand == playerHands[i]
            playerValue == calculateHandValue(hand.cards)
            dealerValue == calculateHandValue(dealerCards)
        IN  /\ hand.isFromSplit => hand.result # "blackjack"
            /\ (hand.isFromSplit /\ HasResult(hand)
                    /\ Len(hand.cards) = 2 /\ playerValue.value = 21) =>
                 /\ hand.result \in {"win", "push", "lose"}
                 /\ hand.result = determineOutcome(21, FALSE, FALSE,
                                      dealerValue.value, dealerValue.isBlackjack,
                                      dealerValue.isBusted)
            /\ hand.result = "blackjack" =>
                 /\ ~hand.isFromSplit
                 /\ ~hand.isDoubled
                 /\ Len(playerHands) = 1
                 /\ Len(hand.cards) = 2
                 /\ playerValue.value = 21

\* A king and an ace on a hand created by a split, adjudicated as a win.
C17_Witness ==
    /\ gameState = "complete"
    /\ \E i \in DOMAIN playerHands :
        /\ playerHands[i].isFromSplit
        /\ Len(playerHands[i].cards) = 2
        /\ playerHands[i].cards[1].rank = "K"
        /\ playerHands[i].cards[2].rank = "A"
        /\ playerHands[i].result = "win"

\* C18: once a hand has a result, its result, cards and bet stay as they are
\* in every later step of the round, at the same place among the hands: no
\* hit, double, split or surrender is applied to it, and the dealer-turn
\* adjudication leaves a bust or a surrender as it was, also the one assigned
\* in the same step.
C18_ResultIsFinal ==
    [][/\ \A i \in DOMAIN playerHands :
            HasResult(playerHands[i]) =>
                /\ i \in DOMAIN playerHands'
                /\ playerHands'[i].result = playerHands[i].result
                /\ playerHands'[i].cards = playerHands[i].cards
                /\ playerHands'[i].bet = playerHands[i].bet
       /\ op' = "handleSurrender" =>
            playerHands'[activeHandIndex + 1].result = "surrender"
       /\ (op' \in {"handleHit", "handleDouble"}
              /\ calculateHandValue(playerHands'[activeHandIndex + 1].cards).isBusted) =>
            playerHands'[activeHandIndex + 1].result = "lose"
    ]_vars

\* The first hand of a split went bust and lost, the second was played and
\* the dealer has adjudicated: the first hand still has its three cards.
C18_Witness ==
    /\ gameState = "complete"
    /\ Len(playerHands) >= 2
    /\ playerHands[1].result = "lose"
    /\ calculateHandValue(playerHands[1].cards).isBusted
    /\ op = "handleStand"
    /\ Len(dealerCards) >= 3

\* C19: under the default config there are never more than maxSplits + 1 = 4
\* player hands (at most maxSplits splits have been performed), and the split
\* action is offered only while the number of hands minus one is below
\* maxSplits.
C19_AtMostMaxSplits ==
    /\ Len(playerHands) <= DEFAULT_CONFIG.maxSplits + 1
    /\ showSplit => Len(playerHands) - 1 < DEFAULT_CONFIG.maxSplits

\* Four hands on the table, the active one a pair of kings, no split offered.
C19_Witness ==
    /\ gameState = "playerTurn"
    /\ Len(playerHands) = 4
    /\ Len(activeHand.cards) = 2
    /\ activeHand.cards[1].rank = "K"
    /\ activeHand.cards[2].rank = "K"
    /\ ~showSplit

\* C20: a hand with isSplitAces was created by splitting a pair of aces: it
\* is one of the two hands of that split, holds exactly two cards, the first
\* an ace, and has not been hit, doubled, split again or surrendered; the
\* dealer plays in the step of the split, so the player never acts on it.
C20_SplitAcesGetOneCard ==
    \A i \in DOMAIN playerHands :
        playerHands[i].isSplitAces =>
            /\ playerHands[i].isFromSplit
            /\ Len(playerHands[i].cards) = 2
            /\ playerHands[i].cards[1].rank = "A"
            /\ ~playerHands[i].isDoubled
            /\ playerHands[i].bet = input.bet
            /\ playerHands[i].result \in {"win", "push", "lose"}
            /\ gameState = "complete"
            /\ op = "handleSplit"
            /\ Len(playerHands) = 2
            /\ \A k \in DOMAIN playerHands : playerHands[k].isSplitAces

\* Aces were split, each got one card, and the dealer drew.
C20_Witness ==
    /\ gameState = "complete"
    /\ Len(playerHands) = 2
    /\ playerHands[1].isSplitAces
    /\ playerHands[2].isSplitAces
    /\ Len(dealerCards) >= 3

(***************************************************************************)
(* Further claims on the adjudication specification.                       *)
(***************************************************************************)
\* C24 as stated: determineOutcome returns 'blackjack' whenever the player is
\* not busted, playerBlackjack is true and dealerBlackjack is false, whatever
\* dealerBusted, playerValue and dealerValue are.
C24_PlayerOnlyBlackjackAlways ==
    (op = "determineOutcome"
        /\ ~args.playerBusted /\ args.playerBlackjack /\ ~args.dealerBlackjack) =>
        ret = "blackjack"

\* C24 as amended: determineOutcome returns 'blackjack' whenever neither the
\* player nor the dealer is busted, playerBlackjack is true and
\* dealerBlackjack is false, whatever playerValue and dealerValue are; when
\* the dealer is busted (and the player is not) it returns 'win'.
C24_PlayerOnlyBlackjackUnlessDealerBust ==
    (op = "determineOutcome"
        /\ ~args.playerBusted /\ args.playerBlackjack /\ ~args.dealerBlackjack) =>
        ret = IF args.dealerBusted THEN "win" ELSE "blackjack"

\* A player-only blackjack whose value is below the dealer's still pays as a
\* blackjack.
C24_Witness ==
    /\ op = "determineOutcome"
    /\ ~args.playerBusted /\ args.playerBlackjack
    /\ ~args.dealerBlackjack /\ ~args.dealerBusted
    /\ args.playerValue < args.dealerValue
    /\ ret = "blackjack"

(***************************************************************************)
(* Further claims on the valuation specification.                          *)
(***************************************************************************)
\* C25 as stated: calculateHandValue never reports isBlackjack for a hand
\* that holds three or more cards, whatever their faceDown flags are.
C25_NoBlackjackOnThreeCards ==
    (op = "calculateHandValue" /\ Len(args.cards) >= 3) => ~ret.isBlackjack

\* C25 as amended: calculateHandValue never reports isBlackjack for a hand
\* that holds three or more face-up cards: a 21 on three or more visible
\* cards is never a blackjack.
C25_NoBlackjackOnThreeVisibleCards ==
    (op = "calculateHandValue" /\ Cardinality(VisibleIndices(args.cards)) >= 3) =>
        ~ret.isBlackjack

\* Three face-up cards making 21, not a blackjack.
C25_Witness ==
    /\ op = "calculateHandValue"
    /\ Cardinality(VisibleIndices(args.cards)) = 3
    /\ ret.value = 21
    /\ ~ret.isBlackjack

(***************************************************************************)
(* Further claims on the round specification.                              *)
(***************************************************************************)
\* C21: the result 'surrender' is only on the original unsplit hand, holding
\* exactly two cards, with no hit, double or split performed in the round
\* (the surrender was the player's first decision); surrender is offered only
\* on an unsplit two-card hand while the deal is the only thing that has
\* happened, never on a hand created by a split or after the first decision.
C21_SurrenderOnlyFirstOnOriginalHand ==
    /\ \A i \in DOMAIN playerHands :
         playerHands[i].result = "surrender" =>
            /\ ~playerHands[i].isFromSplit
            /\ ~playerHands[i].isDoubled
            /\ Len(playerHands[i].cards) = 2
            /\ playerHands[i].cards =
                 <<input.initialShoe[Len(input.initialShoe)],
                   input.initialShoe[Len(input.initialShoe) - 2]>>
            /\ Len(playerHands) = 1
            /\ op = "handleSurrender"
    /\ showSurrender =>
         /\ op = "dealInitialCards"
         /\ isFirstAction
         /\ Len(playerHands) = 1
         /\ ~activeHand.isFromSplit
         /\ Len(activeHand.cards) = 2
    /\ op = "handleSurrender" => playerHands[1].result = "surrender"

\* The dealt hand was surrendered and the dealer played on.
C21_Witness ==
    /\ gameState = "complete"
    /\ op = "handleSurrender"
    /\ playerHands[1].result = "surrender"
    /\ Len(dealerCards) >= 3

\* C30: no player hand is skipped.  During the player's turn the active index
\* designates an existing hand that has no result; the index never decreases
\* and moves on by one hand at a time; the dealer's turn begins only from the
\* last hand, or by a split of aces, and aces are split only when they are
\* the sole hand, so that jump passes over no hand entitled to act.
C30_NoHandIsSkipped ==
    /\ [](gameState = "playerTurn" =>
            /\ activeHandIndex < Len(playerHands)
            /\ ~HasResult(activeHand)
            /\ \A i \in DOMAIN playerHands :
                 i > activeHandIndex + 1 =>
                    ~HasResult(playerHands[i]) /\ Len(playerHands[i].cards) = 2)
    /\ [][/\ activeHandIndex' \in {activeHandIndex, activeHandIndex + 1}
          /\ (gameState = "playerTurn" /\ gameState' = "complete") =>
                \/ /\ activeHandIndex = Len(playerHands) - 1
                   /\ activeHandIndex' = Len(playerHands') - 1
                \/ /\ op' = "handleSplit"
                   /\ activeHand.cards[1].rank = "A"
                   /\ activeHand.cards[2].rank = "A"
                   /\ Len(playerHands) = 1
          /\ (op' = "handleSplit" /\ activeHand.cards[1].rank = "A"
                /\ playerHands' # playerHands) =>
                Len(playerHands) = 1
       ]_vars

\* Three hands, the third active after the first two were played, and the
\* dealer has played after it.
C30_Witness ==
    /\ gameState = "complete"
    /\ Len(playerHands) = 3
    /\ activeHandIndex = 2
    /\ op = "handleStand"

(***************************************************************************)
(* The session: HomeScreen (app/index.tsx) with the table it mounts.       *)
(* GamePlay is mounted by handleDeal and unmounted by handleGameEnd; its   *)
(* effects and its two timers are steps of their own.                      *)
(***************************************************************************)
\* numDecks * 52
FullCount == DEFAULT_CONFIG.numDecks * 52

\* The random streams of IndexStreams a session's shuffles draw from.
SessionStreams(n) ==
    {[i \in 1..(n - 1) |-> (((a + b * i) % RandomGrain) * (i + 1)) \div RandomGrain] :
        a \in 0..(SessionGrain - 1), b \in 0..(SessionGrain - 1)}

\* The shoes createShoe(DEFAULT_CONFIG.numDecks) gives, for the bounded
\* family of random streams.
FullShoes == {createShoe(DEFAULT_CONFIG.numDecks, js) : js \in SessionStreams(FullCount)}

\* The lengths of the shoe a session is taken up at: the full shoe, and the
\* MaxWindow shortest lengths at which no reshuffle is due.
SessionLengths ==
    {FullCount} \cup
    {n \in MaxWindow..FullCount :
        /\ ~needsReshuffle([i \in 1..n |-> i], DEFAULT_CONFIG)
        /\ needsReshuffle([i \in 1..(n - MaxWindow) |-> i], DEFAULT_CONFIG)}

\* The bet the betting screen hands to onDeal in a session (a chip of
\* CHIP_VALUES whose blackjack payout is not a whole number).
SessionBets == {25}

\* GamePlay is not mounted, or has just been mounted: its useState initial
\* values, nothing pending.
GamePlayInitial ==
    [shoe |-> <<>>, dealerCards |-> <<>>, playerHands |-> <<>>,
     activeHandIndex |-> 0, gameState |-> "dealing", isFirstAction |-> TRUE,
     gameEndDataRef |-> Null, timer |-> "none"]

\* The betting phase of a session whose shoe has been initialised: the shoe
\* is a created shoe less the cards of the rounds before, which are in the
\* discard tray.
SessionInit ==
    /\ homeShoe \in {SubSeq(full, 1, n) : full \in FullShoes, n \in SessionLengths}
    /\ discardCount = FullCount - Len(homeShoe)
    /\ gamePhase = "betting"
    /\ currentBet = 0
    /\ balance = Money(StartBalance)
    /\ input = [initialShoe |-> <<>>, bet |-> 0]
    /\ op = "none"
    /\ args = <<>>
    /\ ret = "none"
    /\ drawn = <<>>
    /\ shoe = GamePlayInitial.shoe
    /\ dealerCards = GamePlayInitial.dealerCards
    /\ playerHands = GamePlayInitial.playerHands
    /\ activeHandIndex = GamePlayInitial.activeHandIndex
    /\ gameState = GamePlayInitial.gameState
    /\ isFirstAction = GamePlayInitial.isFirstAction
    /\ gameEndDataRef = GamePlayInitial.gameEndDataRef
    /\ timer = GamePlayInitial.timer
    /\ rounds = 0
    /\ reports = 0
    /\ balanceAtDeal = balance

\* handleDeal(bet), which mounts GamePlay with the shoe and the bet as props.
handleDeal ==
    /\ gamePhase = "betting"
    /\ rounds < MaxRounds
    /\ \E bet \in SessionBets :
        /\ balance' = balance - Money(bet)
        /\ currentBet' = bet
        /\ input' = [initialShoe |-> homeShoe, bet |-> bet]
    /\ gamePhase' = "playing"
    /\ shoe' = GamePlayInitial.shoe
    /\ dealerCards' = GamePlayInitial.dealerCards
    /\ playerHands' = GamePlayInitial.playerHands
    /\ activeHandIndex' = GamePlayInitial.activeHandIndex
    /\ gameState' = GamePlayInitial.gameState
    /\ isFirstAction' = GamePlayInitial.isFirstAction
    /\ gameEndDataRef' = GamePlayInitial.gameEndDataRef
    /\ timer' = GamePlayInitial.timer
    /\ op' = "handleDeal"
    /\ rounds' = rounds + 1
    /\ reports' = 0
    /\ balanceAtDeal' = balance
    /\ UNCHANGED <<args, ret, drawn, homeShoe, discardCount>>

\* Mutant of TotalWinnings: only the first hand is paid.
TotalWinningsFirstHand(hands) ==
    IF hands = <<>> THEN 0
    ELSE calculatePayout(Head(hands).bet, Head(hands).result)

\* playerHands.reduce((sum, hand) => sum + calculatePayout(hand.bet, hand.result!), 0)
RECURSIVE TotalWinnings(_)
TotalWinnings(hands) ==
    IF hands = <<>> THEN 0
    ELSE calculatePayout(Head(hands).bet, Head(hands).result)
         + TotalWinnings(Tail(hands))

\* Mutant of CardsUsed: the dealer's cards are not counted.
CardsUsedByPlayer(hands, dealer) == CardsIn(hands)

\* playerCardCount + dealerCardCount
CardsUsed(hands, dealer) == CardsIn(hands) + Len(dealer)

\* The complete effect: the round's report is stored and the discard timer
\* is started.
CompleteEffect ==
    /\ gamePhase = "playing"
    /\ gameState = "complete"
    /\ Len(playerHands) > 0
    /\ \A i \in DOMAIN playerHands : HasResult(playerHands[i])
    /\ timer = "none"
    /\ gameEndDataRef = Null
    /\ gameEndDataRef' = [winnings |-> TotalWinnings(playerHands),
                          cardsUsed |-> CardsUsed(playerHands, dealerCards),
                          remainingShoe |-> shoe]
    /\ timer' = "discard"
    /\ op' = "completeEffect"
    /\ UNCHANGED <<input, args, ret, shoe, drawn, game, homeShoe, gamePhase,
                   currentBet, discardCount, rounds, reports, balanceAtDeal>>

\* The discard timer fires after 1500 ms.
DiscardTimer ==
    /\ timer = "discard"
    /\ gameState' = "discarding"
    /\ timer' = "none"
    /\ op' = "discardTimer"
    /\ UNCHANGED <<input, args, ret, shoe, drawn, dealerCards, playerHands,
                   activeHandIndex, isFirstAction, balance, homeShoe, gamePhase,
                   currentBet, discardCount, gameEndDataRef, rounds, reports,
                   balanceAtDeal>>

\* The discarding effect: the end timer is started.
DiscardingEffect ==
    /\ gamePhase = "playing"
    /\ gameState = "discarding"
    /\ gameEndDataRef # Null
    /\ timer = "none"
    /\ timer' = "end"
    /\ op' = "discardingEffect"
    /\ UNCHANGED <<input, args, ret, shoe, drawn, game, homeShoe, gamePhase,
                   currentBet, discardCount, gameEndDataRef, rounds, reports,
                   balanceAtDeal>>

\* Mutant of ReshuffleDue: a reshuffle is due once a single card is used.
ReshuffleDueAtOnce(remainingShoe) == Len(remainingShoe) < FullCount

\* Mutant of ReshuffleDue: a reshuffle is never due.
ReshuffleNeverDue(remainingShoe) == FALSE

\* needsReshuffle(remainingShoe), with the default config
ReshuffleDue(remainingShoe) == needsReshuffle(remainingShoe, DEFAULT_CONFIG)

\* HomeScreen's handleGameEnd, the onGameEnd prop of GamePlay.  The table is
\* unmounted by the return to the betting phase.
handleGameEnd(winnings, cardsUsed, remainingShoe) ==
    /\ balance' = balance + winnings
    /\ IF ReshuffleDue(remainingShoe)
       THEN /\ homeShoe' \in FullShoes
            /\ discardCount' = 0
       ELSE /\ homeShoe' = remainingShoe
            /\ discardCount' = discardCount + cardsUsed
    /\ gamePhase' = "betting"
    /\ currentBet' = 0
    /\ shoe' = GamePlayInitial.shoe
    /\ dealerCards' = GamePlayInitial.dealerCards
    /\ playerHands' = GamePlayInitial.playerHands
    /\ activeHandIndex' = GamePlayInitial.activeHandIndex
    /\ gameState' = GamePlayInitial.gameState
    /\ isFirstAction' = GamePlayInitial.isFirstAction

\* The end timer fires after 700 ms: the stored report is cleared and handed
\* to onGameEnd.
EndTimer ==
    /\ timer = "end"
    /\ gameEndDataRef' = Null
    /\ timer' = "none"
    /\ handleGameEnd(gameEndDataRef.winnings, gameEndDataRef.cardsUsed,
                     gameEndDataRef.remainingShoe)
    /\ op' = "onGameEnd"
    /\ args' = [winnings |-> gameEndDataRef.winnings,
                cardsUsed |-> gameEndDataRef.cardsUsed]
    /\ reports' = reports + 1
    /\ UNCHANGED <<input, ret, drawn, rounds, balanceAtDeal>>

SessionNext ==
    \/ handleDeal
    \/ DealInitialCards
    \/ handleHit
    \/ handleStand
    \/ handleDouble
    \/ handleSplit
    \/ handleSurrender
    \/ CompleteEffect
    \/ DiscardTimer
    \/ DiscardingEffect
    \/ EndTimer

\* React runs a pending effect and the timers fire.
SessionSpec ==
    /\ SessionInit
    /\ [][SessionNext]_vars
    /\ WF_vars(CompleteEffect)
    /\ WF_vars(DiscardTimer)
    /\ WF_vars(DiscardingEffect)
    /\ WF_vars(EndTimer)

\* s is what is left of t after cards were taken from its end.
IsPrefix(s, t) == Len(s) <= Len(t) /\ s = SubSeq(t, 1, Len(s))

\* The shoe of the round being played: the shoe handed to the table until
\* the deal has been made, the table's shoe after it.
RoundShoe == IF gameState = "dealing" THEN input.initialShoe ELSE shoe

\* C22: within a round the shoe only shrinks: every step of a round leaves a
\* prefix of the round's shoe, the deal starting from the session's shoe, and
\* the session's shoe stays as it is during the round.  The session's shoe
\* changes only in handleGameEnd, at the end of the round: it becomes what is
\* left of the round's shoe, or, only when needsReshuffle of that remainder
\* is true, a fresh full shoe.
C22_ShoeOnlyShrinks ==
    [][/\ (gamePhase = "playing" /\ gamePhase' = "playing") =>
            /\ IsPrefix(RoundShoe', RoundShoe)
            /\ homeShoe' = homeShoe
       /\ (gamePhase = "betting" /\ gamePhase' = "playing") =>
            /\ RoundShoe' = homeShoe
            /\ homeShoe' = homeShoe
       /\ homeShoe' # homeShoe => op' = "onGameEnd"
       /\ op' = "onGameEnd" =>
            /\ gamePhase = "playing" /\ gamePhase' = "betting"
            /\ gameState = "discarding"
            /\ IsPrefix(shoe, homeShoe)
            /\ IF needsReshuffle(shoe, DEFAULT_CONFIG)
               THEN Len(homeShoe') = FullCount /\ homeShoe' \in FullShoes
               ELSE homeShoe' = shoe
    ]_vars

\* A round ended past the penetration point and a full shoe was installed.
C22_Witness ==
    /\ op = "onGameEnd"
    /\ gamePhase = "betting"
    /\ Len(homeShoe) = FullCount
    /\ Len(input.initialShoe) < FullCount
    /\ needsReshuffle(SubSeq(input.initialShoe, 1, Len(input.initialShoe) - args.cardsUsed), DEFAULT_CONFIG)

\* The payouts of the first n hands, added up.
RECURSIVE PayoutSum(_, _)
PayoutSum(hands, n) ==
    IF n = 0 THEN 0
    ELSE PayoutSum(hands, n - 1) + calculatePayout(hands[n].bet, hands[n].result)

\* C23: in every round the winnings are reported to the session (onGameEnd)
\* at most once; the report is made only from the 'discarding' state, which
\* is entered only from 'complete' with every hand holding a result, and
\* from 'complete' on the hands and the dealer's cards no longer change; the
\* amount reported, and added to the balance, is the sum over the player
\* hands of calculatePayout(hand.bet, hand.result); and with the effects run
\* and the two timers firing, a completed round is eventually reported.
C23_WinningsReportedOnce ==
    /\ [](reports <= 1)
    /\ [][/\ op' = "onGameEnd" =>
                /\ reports' = reports + 1
                /\ gameState = "discarding"
                /\ Len(playerHands) > 0
                /\ \A i \in DOMAIN playerHands : HasResult(playerHands[i])
                /\ args'.winnings = PayoutSum(playerHands, Len(playerHands))
                /\ balance' = balance + PayoutSum(playerHands, Len(playerHands))
          /\ reports' # reports => (op' = "onGameEnd" \/ op' = "handleDeal")
          /\ gameState' = "discarding" =>
                /\ gameState \in {"complete", "discarding"}
                /\ \A i \in DOMAIN playerHands : HasResult(playerHands[i])
          /\ (gameState \in {"complete", "discarding"} /\ op' # "onGameEnd") =>
                /\ playerHands' = playerHands
                /\ dealerCards' = dealerCards
                /\ shoe' = shoe
       ]_vars
    /\ (gamePhase = "playing" /\ gameState = "complete") ~>
            (op = "onGameEnd" /\ reports = 1)

\* A round of two hands was reported with winnings.
C23_Witness ==
    /\ op = "onGameEnd"
    /\ reports = 1
    /\ gamePhase = "betting"
    /\ args.winnings > 0
    /\ args.cardsUsed >= 6

\* The bets of the first n hands, added up, in halves of a unit.
RECURSIVE BetSum(_, _)
BetSum(hands, n) ==
    IF n = 0 THEN 0 ELSE BetSum(hands, n - 1) + Money(hands[n].bet)

\* C26: over a round the balance changes by the payouts of the final hands
\* minus their bets.  The bet is deducted once at the deal; a double and a
\* split each deduct the acted hand's bet as it was before the action, and
\* nothing else changes the balance during a round; so once the cards are
\* dealt, what was deducted since the deal is exactly the sum of the bets the
\* hands carry, and when the round is reported the balance differs from the
\* balance before the deal by the sum of calculatePayout(hand.bet,
\* hand.result) over the final hands minus the sum of their bets.
C26_BalanceChangeIsPayoutsMinusBets ==
    /\ []((gamePhase = "playing" /\ gameState # "dealing") =>
            balanceAtDeal - balance = BetSum(playerHands, Len(playerHands)))
    /\ [][/\ op' = "handleDeal" =>
                /\ balance' = balance - Money(input'.bet)
                /\ balanceAtDeal' = balance
          /\ op' = "dealInitialCards" =>
                /\ balance' = balance
                /\ Len(playerHands') = 1
                /\ playerHands'[1].bet = input.bet
          /\ op' = "handleDouble" =>
                /\ balance' = balance - Money(activeHand.bet)
                /\ playerHands'[activeHandIndex + 1].bet = 2 * activeHand.bet
                /\ Len(playerHands') = Len(playerHands)
          /\ op' = "handleSplit" =>
                /\ balance' = balance - Money(activeHand.bet)
                /\ Len(playerHands') = Len(playerHands) + 1
                /\ playerHands'[activeHandIndex + 1].bet = activeHand.bet
                /\ playerHands'[activeHandIndex + 2].bet = activeHand.bet
          /\ (gamePhase = "playing"
                /\ op' \notin {"handleDouble", "handleSplit", "onGameEnd"}) =>
                balance' = balance
          /\ op' = "onGameEnd" =>
                balance' - balanceAtDeal
                    = PayoutSum(playerHands, Len(playerHands))
                        - BetSum(playerHands, Len(playerHands))
       ]_vars

\* A round is complete in which a hand was doubled and won: twice the bet
\* has been deducted since the deal and the hand carries it.
C26_Witness ==
    /\ gamePhase = "playing"
    /\ gameState = "complete"
    /\ \E i \in DOMAIN playerHands :
          /\ playerHands[i].isDoubled
          /\ playerHands[i].result = "win"
    /\ balanceAtDeal - balance >= 2 * Money(input.bet)

\* C28: cards are conserved across the session: in every betting phase the
\* discard count and the length of the session's shoe add up to
\* numDecks * 52; the cardsUsed reported at the end of a round is the number
\* of cards the round removed from the shoe it was dealt from; and a
\* reshuffle sets the discard count to 0 together with installing a full
\* shoe.
C28_CardsConserved ==
    /\ [](gamePhase = "betting" => discardCount + Len(homeShoe) = FullCount)
    /\ [][op' = "onGameEnd" =>
            /\ args'.cardsUsed = Len(input.initialShoe) - Len(shoe)
            /\ input.initialShoe = homeShoe
            /\ \/ /\ homeShoe' = shoe
                  /\ discardCount' = discardCount + (Len(homeShoe) - Len(shoe))
               \/ /\ Len(homeShoe') = FullCount
                  /\ discardCount' = 0
         ]_vars
    /\ [][discardCount' # discardCount => op' = "onGameEnd"]_vars

\* A round that used at least five cards ended without a reshuffle, and the
\* discard count moved on from a count that was already positive.
C28_Witness ==
    /\ op = "onGameEnd"
    /\ gamePhase = "betting"
    /\ args.cardsUsed >= 5
    /\ discardCount > args.cardsUsed
    /\ Len(homeShoe) < FullCount

\* C29: every round starts from a shoe for which needsReshuffle is false:
\* whenever the session is in its betting phase, and at every deal, fewer
\* than 234 of the 312 cards have been used and at least 79 remain, and the
\* round is dealt from exactly that shoe.
C29_DealsFromUnspentShoe ==
    /\ [](gamePhase = "betting" =>
            /\ ~needsReshuffle(homeShoe, DEFAULT_CONFIG)
            /\ FullCount - Len(homeShoe) < 234
            /\ Len(homeShoe) >= 79)
    /\ [][op' = "handleDeal" =>
            /\ ~needsReshuffle(input'.initialShoe, DEFAULT_CONFIG)
            /\ Len(input'.initialShoe) >= 79
            /\ input'.initialShoe = homeShoe]_vars
    /\ [](op = "dealInitialCards" => Len(input.initialShoe) >= 79)

\* A round that was dealt from fewer than 83 cards has ended, and the
\* session holds a full shoe again.
C29_Witness ==
    /\ op = "onGameEnd"
    /\ gamePhase = "betting"
    /\ Len(input.initialShoe) < 83
    /\ Len(homeShoe) = FullCount
    /\ discardCount = 0

====
